---- MODULE Spec2Model ----
(***************************************************************************)
(* Model of the order matcher (matcher/matcher.py), the association miner  *)
(* (app.py) and the customer statistics builder.  Strings are sequences    *)
(* of one-character strings, so that normalisation, trimming and ordering  *)
(* are computed as the code computes them.                                 *)
(***************************************************************************)
EXTENDS Integers, Sequences, FiniteSets, TLC

VARIABLES
    \* a run of the normaliser: its argument and its two results
    n_pc, n_in, n_out, n_out2,
    \* a call of match_order_to_catalog: its arguments, ...
    m_pc, catalog, freq_norm, rec_norm, accept_thresh, review_thresh, topk,
    fuzz_ok,
    \* ... its copy of the catalog with the normalised names, the number of
    \* results appended so far, the row and the score list of the last
    \* iteration, and the result appended by it
    cat, m_rows, m_row, m_sims, m_result,
    \* a call of _build_customer_stats: its arguments (the sales table, whether
    \* it has a date column, the customer) and the two maps it returns
    s_pc, s_sales, s_dated, s_customer, s_freq_norm, s_rec,
    \* a call of build_product_pairs: its arguments (the sales table, whether
    \* a name column is given, the exclusion patterns) and the rules it returns
    p_pc, p_sales, p_named, p_patterns, p_rules,
    \* a call of compute_reorder_scores: its arguments (the orders, the order
    \* lines, the reference date) and the table it returns
    r_pc, ordini, righe, reference_date, reorder_df,
    \* a run of compute_cross_sell and generate_recommendations: the orders
    \* and order lines, the customers, the catalog, the reorder table, the
    \* associations of compute_cross_sell, and the recommendations returned
    g_pc, g_ordini, g_righe, clienti, prodotti, g_reorder_df, cross_sell,
    rec_df,
    \* a call of build_recommendations_from_sales: the sales table, the date
    \* window (or none), the filters, and the table it returns
    d_pc, df_raw, d_window, d_opts, d_recs,
    \* a call of load_order_pdf: what the table extraction left, the text
    \* lines of the pages, the page at hand, the two item lists of the text
    \* passes, and the records returned
    l_pc, pdf_table, pdf_pages, l_page, improved_items, items, l_result,
    \* a call of load_order_pdf on tables: the rows of the tables, the rows
    \* kept, the column count, the column at hand and the frame
    t_pc, t_raw, t_rows, t_n, t_col, t_df,
    \* a session of the interface: the session state, the text of the
    \* exclusion box, the rules the cross-sell tab used in the last run of
    \* the script, and the number of runs
    u_pc, session_state, excl_input, x_rules, x_runs,
    \* a call of submit_order_to_prestashop: its arguments, the requests
    \* sent, the responses received, the cart id read and the message
    \* returned
    o_pc, api_key, base_url, o_customer, o_items, sent, cart_resp, cart_id,
    order_resp, o_msg,
    \* a call of suggest_cross_sell_for_customer: the sales of the period,
    \* the customer, the thresholds, the rules and the suggestions returned
    q_pc, q_sales, q_customer, q_params, q_rules, q_recs

normVars == <<n_pc, n_in, n_out, n_out2>>

matchVars == <<m_pc, catalog, freq_norm, rec_norm, accept_thresh,
               review_thresh, topk, fuzz_ok, cat, m_rows, m_row, m_sims,
               m_result>>

statsVars == <<s_pc, s_sales, s_dated, s_customer, s_freq_norm, s_rec>>

pairsVars == <<p_pc, p_sales, p_named, p_patterns, p_rules>>

reorderVars == <<r_pc, ordini, righe, reference_date, reorder_df>>

\* the components of the matching side, and those of the scoring side
coreVars == <<normVars, matchVars, statsVars, pairsVars>>

recsVars == <<g_pc, g_ordini, g_righe, clienti, prodotti, g_reorder_df,
              cross_sell, rec_df>>

salesVars == <<d_pc, df_raw, d_window, d_opts, d_recs>>

pdfVars == <<l_pc, pdf_table, pdf_pages, l_page, improved_items, items,
             l_result>>

tableVars == <<t_pc, t_raw, t_rows, t_n, t_col, t_df>>

sessionVars == <<u_pc, session_state, excl_input, x_rules, x_runs>>

submitVars == <<o_pc, api_key, base_url, o_customer, o_items, sent, cart_resp,
                cart_id, order_resp, o_msg>>

suggestVars == <<q_pc, q_sales, q_customer, q_params, q_rules, q_recs>>

restVars ==
    <<reorderVars, recsVars, salesVars, pdfVars, tableVars, sessionVars,
      submitVars, suggestVars>>

vars == <<coreVars, restVars>>

(***************************************************************************)
(* Characters and strings                                                  *)
(***************************************************************************)
UpperChars == <<"A","B","C","D","E","F","G","H","I","J","K","L","M",
                "N","O","P","Q","R","S","T","U","V","W","X","Y","Z">>

LowerChars == <<"a","b","c","d","e","f","g","h","i","j","k","l","m",
                "n","o","p","q","r","s","t","u","v","w","x","y","z">>

Digits == {"0","1","2","3","4","5","6","7","8","9"}

\* the characters matched by \s
Whitespace == {" ", "\n", "\t", "\r"}

\* string.punctuation (its double quote and backquote are left out: the
\* alphabets below do not contain them)
Punctuation == {"!", "#", "$", "%", "&", "'", "(", ")", "*", "+", ",",
                "-", ".", "/", ":", ";", "<", "=", ">", "?", "@", "[", "\\",
                "]", "^", "_", "{", "|", "}", "~"}

\* the characters matched by \w
IsWordCh(c) ==
    \/ \E i \in 1..26 : c = UpperChars[i] \/ c = LowerChars[i]
    \/ c \in Digits
    \/ c = "_"
    \/ c = "ø"

\* str.lower(), one character
LowerCh(c) ==
    IF \E i \in 1..26 : UpperChars[i] = c
    THEN LowerChars[CHOOSE i \in 1..26 : UpperChars[i] = c]
    ELSE c

Lower(s) == [i \in 1..Len(s) |-> LowerCh(s[i])]

\* str.strip()
RECURSIVE LStrip(_)
LStrip(s) ==
    IF s # <<>> /\ Head(s) \in Whitespace THEN LStrip(Tail(s)) ELSE s

RECURSIVE RStrip(_)
RStrip(s) ==
    IF s # <<>> /\ s[Len(s)] \in Whitespace
    THEN RStrip(SubSeq(s, 1, Len(s) - 1))
    ELSE s

Strip(s) == RStrip(LStrip(s))

(***************************************************************************)
(* Text normaliser                                                         *)
(***************************************************************************)
\* s.replace("\n", " ")
ReplaceNewline(s) == [i \in 1..Len(s) |-> IF s[i] = "\n" THEN " " ELSE s[i]]

\* re.sub(r"\s+", " ", s)
RECURSIVE CollapseWs(_)
CollapseWs(s) ==
    IF s = <<>> THEN <<>>
    ELSE IF Head(s) \in Whitespace
         THEN <<" ">> \o CollapseWs(LStrip(s))
         ELSE <<Head(s)>> \o CollapseWs(Tail(s))

\* s.translate(str.maketrans("", "", string.punctuation))
StripPunct(s) == SelectSeq(s, LAMBDA c : c \notin Punctuation)

\* the alternatives of the unit pattern
Units == { <<"c","m">>, <<"m","m">>, <<"m","l">>, <<"l","t">>, <<"p","z">>,
           <<"c","o","n","f">>, <<"c","f">>, <<"k","g">>, <<"g","r">>,
           <<"ø">>, <<"d","i","a","m">>, <<"x">> }

\* length of the maximal run of word characters at the head of s
RECURSIVE WordRun(_)
WordRun(s) ==
    IF s # <<>> /\ IsWordCh(Head(s)) THEN 1 + WordRun(Tail(s)) ELSE 0

\* re.sub(r"\b(cm|mm|...|x)\b", " ", s): a unit bounded by \b on both sides
\* is a maximal run of word characters equal to a unit
RECURSIVE RemoveUnits(_)
RemoveUnits(s) ==
    IF s = <<>> THEN <<>>
    ELSE IF ~IsWordCh(Head(s))
         THEN <<Head(s)>> \o RemoveUnits(Tail(s))
         ELSE LET k == WordRun(s)
                  w == SubSeq(s, 1, k)
                  rest == SubSeq(s, k + 1, Len(s))
              IN  (IF w \in Units THEN <<" ">> ELSE w) \o RemoveUnits(rest)

\* a value handed to the normaliser: a string, or something that is not one
StrVal(s) == [isstr |-> TRUE, val |-> s]
NonStr == [isstr |-> FALSE, val |-> <<>>]

\* the normaliser without its last line (no final collapse and trim)
norm_txt_nofinal(x) ==
    IF ~x.isstr THEN <<>>
    ELSE RemoveUnits(StripPunct(CollapseWs(ReplaceNewline(Lower(x.val)))))

norm_txt(x) ==
    IF ~x.isstr THEN <<>>
    ELSE LET s1 == ReplaceNewline(Lower(x.val))
             s2 == CollapseWs(s1)
             s3 == StripPunct(s2)
             s4 == RemoveUnits(s3)
         IN  Strip(CollapseWs(s4))

(***************************************************************************)
(* Catalog matcher                                                         *)
(*                                                                         *)
(* Confidences are kept exact: a similarity is a whole percentage, a       *)
(* frequency or recency score a number of tenths, and a combined           *)
(* confidence p a number of ten-thousandths                                *)
(*     p = 0.35 * sim + 0.65 * (0.4 * rec + 0.6 * freq).                   *)
(* A reported probability is a number of thousandths.                      *)
(***************************************************************************)
\* Python's None where a string is expected
NoneVal == <<"None">>

NoCandidates == [isnone |-> TRUE, items |-> <<>>]

Min(a, b) == IF a <= b THEN a ELSE b
Max(a, b) == IF a >= b THEN a ELSE b

FirstIndex(S) == CHOOSE i \in S : \A j \in S : i <= j
LastIndex(S) == CHOOSE i \in S : \A j \in S : i >= j

\* cat = catalog_df.copy(); cat["name_norm"] = cat["name"].map(_norm_txt)
with_name_norm(catalog_df) ==
    [i \in 1..Len(catalog_df) |->
        [product_id |-> catalog_df[i].product_id, name |-> catalog_df[i].name,
         name_norm |-> norm_txt(StrVal(catalog_df[i].name))]]

\* codes = set(cat["product_id"])
codes(c) == {c[i].product_id : i \in 1..Len(c)}

\* the order code taken as it is, without trimming
ocode_untrimmed(row) == row.order_itemcode

\* ocode = str(r.get("order_itemcode", "")).strip()
ocode_of(row) == Strip(row.order_itemcode)

\* cat[cat["product_id"] == ocode].iloc[0]
code_row(c, ocode) ==
    c[FirstIndex({i \in 1..Len(c) : c[i].product_id = ocode})]

\* the indices of exact = cat[cat["name_norm"] == oname_norm]
exact_rows(c, oname_norm) ==
    {i \in 1..Len(c) : c[i].name_norm = oname_norm}

\* the last exact row instead of the first
exact_last(c, oname_norm) == c[LastIndex(exact_rows(c, oname_norm))]

\* exact.iloc[0]
exact_first(c, oname_norm) == c[FirstIndex(exact_rows(c, oname_norm))]

\* the test on the raw description instead of the normalised one
no_raw_name(row) == row.order_desc = <<>>

\* not oname_norm
no_name(row) == row.order_desc_norm = <<>>

\* dict.get(pid, 0.0)
Get(d, k) == IF k \in DOMAIN d THEN d[k] ELSE 0

\* pb = 0.4 * rec_norm.get(pid, 0.0) + 0.6 * freq_norm.get(pid, 0.0), in
\* hundredths
purchase_bias(fn, rn, pid) == 4 * Get(rn, pid) + 6 * Get(fn, pid)

\* p = 0.35 * sim + 0.65 * pb, in ten-thousandths
combined(sim, pb) == 35 * sim + 65 * pb

\* the list built by the loop over c.iterrows(); sim[i] is the best of the
\* three rapidfuzz ratios of the description and the i-th name
score_list(c, fn, rn, sim) ==
    [i \in 1..Len(c) |->
        LET pb == purchase_bias(fn, rn, c[i].product_id)
        IN  [pid |-> c[i].product_id, name |-> c[i].name,
             p |-> combined(sim[i], pb), sim |-> sim[i], pb |-> pb]]

\* insertion that puts an entry before the entries of equal confidence
insert_unstable(sorted, e) ==
    LET k == Cardinality({i \in 1..Len(sorted) : sorted[i].p > e.p})
    IN  SubSeq(sorted, 1, k) \o <<e>> \o SubSeq(sorted, k + 1, Len(sorted))

\* insertion of an entry behind the entries of greater or equal confidence
insert_desc(sorted, e) ==
    LET k == Cardinality({i \in 1..Len(sorted) : sorted[i].p >= e.p})
    IN  SubSeq(sorted, 1, k) \o <<e>> \o SubSeq(sorted, k + 1, Len(sorted))

\* sims.sort(key=lambda x: x[2], reverse=True): descending and stable
RECURSIVE sort_desc(_)
sort_desc(s) ==
    IF s = <<>> THEN <<>>
    ELSE insert_desc(sort_desc(SubSeq(s, 1, Len(s) - 1)), s[Len(s)])

\* the slice taken one place too far to the right
slice_shifted(s, k) == SubSeq(s, 2, Min(k, Len(s)))

\* s[:k]
slice_to(s, k) ==
    IF k >= 0 THEN SubSeq(s, 1, Min(k, Len(s)))
    ELSE SubSeq(s, 1, Max(Len(s) + k, 0))

\* round(float(p), 3), ties to even
round3(p) ==
    LET q == p \div 10
        r == p % 10
    IN  IF r < 5 THEN q
        ELSE IF r > 5 THEN q + 1
        ELSE IF q % 2 = 0 THEN q ELSE q + 1

\* the status with strict comparisons
status_strict(p_best, acc, rev) ==
    IF p_best > acc THEN "OK"
    ELSE IF p_best > rev THEN "DA RIVEDERE" ELSE "NON TROVATO"

\* "OK" if p_best >= accept_thresh else ("DA RIVEDERE" if p_best >=
\* review_thresh else "NON TROVATO")
status_of(p_best, acc, rev) ==
    IF p_best >= acc THEN "OK"
    ELSE IF p_best >= rev THEN "DA RIVEDERE" ELSE "NON TROVATO"

\* the candidate list written to the result
candidates_of(sorted, k) ==
    LET top == slice_to(sorted, k)
    IN  [isnone |-> FALSE,
         items |-> [i \in 1..Len(top) |->
                      [product_id |-> top[i].pid, name |-> top[i].name,
                       prob |-> round3(top[i].p)]]]

code_result(c, row, ocode) ==
    [order_itemcode |-> ocode, order_desc |-> row.order_desc,
     order_qty |-> row.order_qty, matched_itemcode |-> ocode,
     matched_name |-> code_row(c, ocode).name, probability |-> 1000,
     method |-> "code", status |-> "OK", candidates |-> NoCandidates]

desc_exact_result(c, row, ocode) ==
    LET hit == exact_first(c, row.order_desc_norm)
    IN  [order_itemcode |-> ocode, order_desc |-> row.order_desc,
         order_qty |-> row.order_qty, matched_itemcode |-> hit.product_id,
         matched_name |-> hit.name, probability |-> 900,
         method |-> "desc_exact", status |-> "OK",
         candidates |-> NoCandidates]

no_name_result(row, ocode) ==
    [order_itemcode |-> ocode, order_desc |-> row.order_desc,
     order_qty |-> row.order_qty, matched_itemcode |-> NoneVal,
     matched_name |-> NoneVal, probability |-> 0,
     method |-> "no_name", status |-> "NON TROVATO",
     candidates |-> NoCandidates]

fuzzy_result(row, ocode, sorted, acc, rev, k) ==
    LET best == sorted[1]
    IN  [order_itemcode |-> ocode, order_desc |-> row.order_desc,
         order_qty |-> row.order_qty,
         matched_itemcode |-> IF best.p >= rev THEN best.pid ELSE NoneVal,
         matched_name |-> IF best.p >= rev THEN best.name ELSE NoneVal,
         probability |-> round3(best.p),
         method |-> "desc_fuzzy", status |-> status_of(best.p, acc, rev),
         candidates |-> candidates_of(sorted, k)]

NoRow == [order_itemcode |-> <<>>, order_desc |-> <<>>,
          order_desc_norm |-> <<>>, order_qty |-> 0]

NoResult ==
    [order_itemcode |-> <<>>, order_desc |-> <<>>, order_qty |-> 0,
     matched_itemcode |-> NoneVal, matched_name |-> NoneVal,
     probability |-> 0, method |-> "none", status |-> "none",
     candidates |-> NoCandidates]

\* one iteration of the loop over order_df.iterrows(): the score list it
\* builds, and the result it appends unless sims[0] raises IndexError
match_row(c, fn, rn, acc, rev, k, row, sim) ==
    LET ocode == ocode_of(row)
        sims == score_list(c, fn, rn, sim)
    IN  IF ocode # <<>> /\ ocode \in codes(c)
        THEN [raised |-> FALSE, sims |-> <<>>,
              result |-> code_result(c, row, ocode)]
        ELSE IF row.order_desc_norm # <<>>
                /\ exact_rows(c, row.order_desc_norm) # {}
        THEN [raised |-> FALSE, sims |-> <<>>,
              result |-> desc_exact_result(c, row, ocode)]
        ELSE IF no_name(row)
        THEN [raised |-> FALSE, sims |-> <<>>,
              result |-> no_name_result(row, ocode)]
        ELSE IF sims = <<>>
        THEN [raised |-> TRUE, sims |-> sims, result |-> NoResult]
        ELSE [raised |-> FALSE, sims |-> sims,
              result |-> fuzzy_result(row, ocode, sort_desc(sims),
                                      acc, rev, k)]

(***************************************************************************)
(* Calls of match_order_to_catalog                                         *)
(***************************************************************************)
MaxCat == 2
MaxOrders == 2
MaxTopK == 2

Pids == {<<"A">>, <<"B">>}

\* "red." is normalised to "red"
Names == {<<"r","e","d",".">>, <<"C","u","p">>}

Items == [product_id : Pids, name : Names]

RECURSIVE SeqsUpTo(_, _)
SeqsUpTo(S, n) ==
    IF n = 0 THEN {<<>>}
    ELSE LET T == SeqsUpTo(S, n - 1)
         IN  T \cup {Append(t, x) : t \in {u \in T : Len(u) = n - 1}, x \in S}

Catalogs == SeqsUpTo(Items, MaxCat)

\* scores in tenths
FreqValues == {5}
RecValues == {5, 10}

\* the products the customer has bought
StatPids == {<<"A">>}

\* (accept, review) in ten-thousandths: the defaults 0.70 and 0.50, and a
\* caller's pair with the accept threshold below the review threshold
Thresholds == {<<7000, 5000>>, <<3000, 5000>>}

\* order codes: none, and one that equals "A" once trimmed (a code of the
\* catalog or not, as the catalog has it)
Codes == {<<>>, <<"A"," ">>}

\* descriptions: none, one that normalises to "red", one that is not empty
\* and normalises to the empty string, one that equals no name
Descs == {<<>>, <<"R","E","D">>, <<"x">>, <<"B","l","u">>}

\* ordered quantities
Qtys == {1, 3}

\* similarities in percent
SimValues == {0, 50, 70}

\* the row as load_order_excel and load_order_pdf build it
order_row(code, desc, qty) ==
    [order_itemcode |-> code, order_desc |-> desc,
     order_desc_norm |-> norm_txt(StrVal(desc)), order_qty |-> qty]

OrderRows ==
    {order_row(code, desc, qty) : code \in Codes, desc \in Descs,
                                  qty \in Qtys}

MatchStart ==
    /\ m_pc = "start"
    /\ catalog \in Catalogs
    /\ \E S \in SUBSET StatPids :
          freq_norm \in [S -> FreqValues] /\ rec_norm \in [S -> RecValues]
    /\ \E t \in Thresholds : accept_thresh = t[1] /\ review_thresh = t[2]
    /\ topk \in 1..MaxTopK
    /\ fuzz_ok \in BOOLEAN
    /\ cat = <<>>
    /\ m_rows = 0
    /\ m_row = NoRow
    /\ m_sims = <<>>
    /\ m_result = NoResult

MatchIdle ==
    /\ m_pc = "idle"
    /\ catalog = <<>>
    /\ freq_norm = <<>>
    /\ rec_norm = <<>>
    /\ accept_thresh = 7000
    /\ review_thresh = 5000
    /\ topk = 5
    /\ fuzz_ok = TRUE
    /\ cat = <<>>
    /\ m_rows = 0
    /\ m_row = NoRow
    /\ m_sims = <<>>
    /\ m_result = NoResult

\* if fuzz is None: raise RuntimeError; otherwise the catalog is copied and
\* its names are normalised
MatchEnter ==
    /\ m_pc = "start"
    /\ m_pc' = IF fuzz_ok THEN "loop" ELSE "raised"
    /\ cat' = IF fuzz_ok THEN with_name_norm(catalog) ELSE cat
    /\ UNCHANGED <<catalog, freq_norm, rec_norm, accept_thresh, review_thresh,
                   topk, fuzz_ok, m_rows, m_row, m_sims, m_result>>
    /\ UNCHANGED <<normVars, statsVars, pairsVars, restVars>>

MatchRow ==
    /\ m_pc = "loop"
    /\ m_rows < MaxOrders
    /\ \E row \in OrderRows, sim \in [1..Len(cat) -> SimValues] :
          LET out == match_row(cat, freq_norm, rec_norm, accept_thresh,
                               review_thresh, topk, row, sim)
          IN  /\ m_row' = row
              /\ m_sims' = out.sims
              /\ m_result' = out.result
              /\ m_pc' = IF out.raised THEN "raised" ELSE "appended"
              /\ m_rows' = IF out.raised THEN m_rows ELSE m_rows + 1
    /\ UNCHANGED <<catalog, freq_norm, rec_norm, accept_thresh, review_thresh,
                   topk, fuzz_ok, cat>>
    /\ UNCHANGED <<normVars, statsVars, pairsVars, restVars>>

\* the loop goes on to a further row of order_df; the row, the score list
\* and the result of the iteration before are not used again
MatchNextRow ==
    /\ m_pc = "appended"
    /\ m_rows < MaxOrders
    /\ m_pc' = "loop"
    /\ m_row' = NoRow
    /\ m_sims' = <<>>
    /\ m_result' = NoResult
    /\ UNCHANGED <<catalog, freq_norm, rec_norm, accept_thresh, review_thresh,
                   topk, fuzz_ok, cat, m_rows>>
    /\ UNCHANGED <<normVars, statsVars, pairsVars, restVars>>

\* return pd.DataFrame(results), after the last row or for an empty order_df
MatchReturn ==
    /\ m_pc = "appended" \/ (m_pc = "loop" /\ m_rows = 0)
    /\ m_pc' = "done"
    /\ UNCHANGED <<catalog, freq_norm, rec_norm, accept_thresh, review_thresh,
                   topk, fuzz_ok, cat, m_rows, m_row, m_sims, m_result>>
    /\ UNCHANGED <<normVars, statsVars, pairsVars, restVars>>

MatchNext == MatchEnter \/ MatchRow \/ MatchNextRow \/ MatchReturn

\* the last iteration appended a result
Matched == m_rows > 0 /\ m_pc \in {"appended", "done"}

(***************************************************************************)
(* Properties of the matcher                                               *)
(***************************************************************************)
\* the trimmed code of the last row is the product_id of a catalog item
CodeHit ==
    /\ Strip(m_row.order_itemcode) # <<>>
    /\ \E i \in 1..Len(catalog) :
          catalog[i].product_id = Strip(m_row.order_itemcode)

\* the normaliser, tabulated over the names and descriptions
NormTable == [s \in Names \cup Descs |-> norm_txt(StrVal(s))]

\* the catalog items whose normalised name is the normalised description of
\* the last row
DescHits ==
    {i \in 1..Len(catalog) :
        NormTable[catalog[i].name] = NormTable[m_row.order_desc]}

DescNormEmpty == NormTable[m_row.order_desc] = <<>>

Fuzzy == Matched /\ m_result.method = "desc_fuzzy"

\* the best combined confidence of the last row
BestP == CHOOSE p \in {m_sims[i].p : i \in 1..Len(m_sims)} :
            \A i \in 1..Len(m_sims) : m_sims[i].p <= p

\* C1: a row whose trimmed code is a catalog product_id is matched to that
\* code with confidence 1.0, method "code" and status OK, whatever its
\* description
CodeTierWins ==
    (Matched /\ CodeHit) =>
        /\ m_result.matched_itemcode = Strip(m_row.order_itemcode)
        /\ m_result.probability = 1000
        /\ m_result.method = "code"
        /\ m_result.status = "OK"

\* a code match on a row whose description is the name of another item
CodeTierWinsWitness ==
    /\ Matched /\ CodeHit
    /\ m_result.method = "code"
    /\ m_row.order_itemcode # Strip(m_row.order_itemcode)
    /\ \E i \in DescHits : catalog[i].product_id # m_result.matched_itemcode

\* C2: without a code match, a non-empty normalised description equal to
\* normalised catalog names is matched to the first such item, with
\* confidence 0.90, method "desc_exact", status OK and no fuzzy scoring
DescExactFirst ==
    (Matched /\ ~CodeHit /\ ~DescNormEmpty /\ DescHits # {}) =>
        LET first == catalog[FirstIndex(DescHits)]
        IN  /\ m_result.matched_itemcode = first.product_id
            /\ m_result.matched_name = first.name
            /\ m_result.probability = 900
            /\ m_result.method = "desc_exact"
            /\ m_result.status = "OK"
            /\ m_result.candidates.isnone
            /\ m_sims = <<>>

\* two items of different product_id have the description's normalised name
DescExactFirstWitness ==
    /\ Matched /\ ~CodeHit
    /\ m_result.method = "desc_exact"
    /\ \E i, j \in DescHits : catalog[i].product_id # catalog[j].product_id

\* C3: without a code match, an empty normalised description gives
\* confidence 0.0, method "no_name", status NOT_FOUND, no matched product,
\* no matched name and no candidates
NoNameResult ==
    (Matched /\ ~CodeHit /\ DescNormEmpty) =>
        /\ m_result.probability = 0
        /\ m_result.method = "no_name"
        /\ m_result.status = "NON TROVATO"
        /\ m_result.matched_itemcode = NoneVal
        /\ m_result.matched_name = NoneVal
        /\ m_result.candidates.isnone

\* a description that is not empty but normalises to the empty string,
\* against a catalog that has items
NoNameResultWitness ==
    /\ Matched /\ ~CodeHit /\ DescNormEmpty
    /\ m_row.order_desc # <<>>
    /\ m_row.order_itemcode # <<>>
    /\ catalog # <<>>
    /\ m_result.method = "no_name"

Populated ==
    /\ m_result.matched_itemcode # NoneVal
    /\ m_result.matched_name # NoneVal

Unpopulated ==
    /\ m_result.matched_itemcode = NoneVal
    /\ m_result.matched_name = NoneVal

\* C4 as stated: for a fuzzy result of best confidence c, status is OK iff
\* c >= accept, REVIEW iff review <= c < accept, NOT_FOUND iff c < review,
\* and the matched product is populated iff c >= review
StatusBandsAsClaimed ==
    Fuzzy =>
        /\ m_result.status = "OK" <=> BestP >= accept_thresh
        /\ m_result.status = "DA RIVEDERE" <=>
              (review_thresh <= BestP /\ BestP < accept_thresh)
        /\ m_result.status = "NON TROVATO" <=> BestP < review_thresh
        /\ Populated <=> BestP >= review_thresh
        /\ Unpopulated <=> BestP < review_thresh
        /\ m_result.status = "NON TROVATO" => Unpopulated
        /\ m_result.status \in {"OK", "DA RIVEDERE"} => Populated

\* C4 amended: for a fuzzy result of best confidence c, status is OK iff
\* c >= accept, REVIEW iff c < accept and c >= review, NOT_FOUND iff c is
\* below both thresholds, and the matched product is populated iff
\* c >= review; a NOT_FOUND result never carries a product, a REVIEW result
\* always does
StatusBands ==
    Fuzzy =>
        /\ m_result.status = "OK" <=> BestP >= accept_thresh
        /\ m_result.status = "DA RIVEDERE" <=>
              (BestP < accept_thresh /\ BestP >= review_thresh)
        /\ m_result.status = "NON TROVATO" <=>
              (BestP < accept_thresh /\ BestP < review_thresh)
        /\ Populated <=> BestP >= review_thresh
        /\ Unpopulated <=> BestP < review_thresh
        /\ m_result.status = "NON TROVATO" => Unpopulated
        /\ m_result.status = "DA RIVEDERE" => Populated

\* a fuzzy result whose best confidence is exactly the accept threshold
StatusBandsWitness ==
    /\ Fuzzy
    /\ review_thresh < accept_thresh
    /\ BestP = accept_thresh
    /\ m_result.status = "OK"
    /\ Populated

\* the candidate list of the last result, and the indices of the score list
\* its entries come from
Cands == m_result.candidates.items

IsRanking(f) ==
    /\ \A i, j \in DOMAIN f : i # j => f[i] # f[j]
    /\ \A i \in DOMAIN f :
          /\ Cands[i].product_id = m_sims[f[i]].pid
          /\ Cands[i].name = m_sims[f[i]].name
          /\ Cands[i].prob = round3(m_sims[f[i]].p)
    \* non-increasing, equal confidences in catalog order
    /\ \A i, j \in DOMAIN f :
          i < j => \/ m_sims[f[i]].p > m_sims[f[j]].p
                   \/ (m_sims[f[i]].p = m_sims[f[j]].p /\ f[i] < f[j])
    \* nothing left out ranks before an entry
    /\ \A i \in DOMAIN f : \A m \in 1..Len(m_sims) :
          (\A j \in DOMAIN f : f[j] # m) =>
              \/ m_sims[f[i]].p > m_sims[m].p
              \/ (m_sims[f[i]].p = m_sims[m].p /\ f[i] < m)

\* C5: the candidate list of a fuzzy result over M items has min(K, M)
\* entries, in non-increasing confidence, holds the K highest confidences
\* with equal ones in catalog order, and starts with the best match
CandidatesRanked ==
    Fuzzy =>
        /\ ~m_result.candidates.isnone
        /\ Len(Cands) = Min(topk, Len(catalog))
        /\ \A i \in 1..(Len(Cands) - 1) : Cands[i].prob >= Cands[i + 1].prob
        /\ \E f \in [1..Len(Cands) -> 1..Len(m_sims)] : IsRanking(f)
        /\ Len(Cands) >= 1
        /\ m_result.probability = Cands[1].prob
        /\ m_result.probability = round3(BestP)
        /\ Populated =>
              /\ m_result.matched_itemcode = Cands[1].product_id
              /\ m_result.matched_name = Cands[1].name

\* more items than K, the second item of the catalog as good as the first
\* or better
CandidatesRankedWitness ==
    /\ Fuzzy
    /\ Len(m_sims) > topk
    /\ m_sims[1].pid # m_sims[2].pid
    /\ m_sims[2].p >= m_sims[1].p
    /\ Populated

\* what a result puts forward first: the head of its candidate list, or
\* the matched product where the tier writes no candidate list
TopCandidate(r) ==
    IF r.candidates.isnone THEN <<r.matched_itemcode, r.matched_name>>
    ELSE IF r.candidates.items = <<>> THEN <<NoneVal, NoneVal>>
    ELSE <<r.candidates.items[1].product_id, r.candidates.items[1].name>>

\* C6 as stated: with a catalog of one item, a row with a non-empty
\* description has that item as top candidate
SingleItemAsClaimed ==
    (Matched /\ Len(catalog) = 1 /\ m_row.order_desc # <<>>) =>
        TopCandidate(m_result) = <<catalog[1].product_id, catalog[1].name>>

\* C6 amended: with a catalog of one item, a row whose normalised
\* description is non-empty has that item as top candidate
SingleItemTop ==
    (Matched /\ Len(catalog) = 1 /\ ~DescNormEmpty) =>
        TopCandidate(m_result) = <<catalog[1].product_id, catalog[1].name>>

\* a fuzzy result over one item that is too weak to be matched
SingleItemTopWitness ==
    /\ Fuzzy
    /\ Len(catalog) = 1
    /\ ~DescNormEmpty
    /\ Unpopulated
    /\ m_result.status = "NON TROVATO"

(***************************************************************************)
(* Normaliser runs: normalise a value, then normalise the result again     *)
(***************************************************************************)
MaxLen == 5

NormAlphabet == {"c", "m", "X", "1", " ", "\n", "."}

RECURSIVE StringsUpTo(_, _)
StringsUpTo(A, n) ==
    IF n = 0 THEN {<<>>}
    ELSE LET S == StringsUpTo(A, n - 1)
         IN  S \cup {Append(s, c) : s \in {t \in S : Len(t) = n - 1}, c \in A}

NormInputs == {StrVal(s) : s \in StringsUpTo(NormAlphabet, MaxLen)} \cup {NonStr}

NormStart ==
    /\ n_pc = "start"
    /\ n_in \in NormInputs
    /\ n_out = <<>>
    /\ n_out2 = <<>>

NormIdle ==
    /\ n_pc = "idle"
    /\ n_in = NonStr
    /\ n_out = <<>>
    /\ n_out2 = <<>>

Normalize ==
    /\ n_pc = "start"
    /\ n_out' = norm_txt(n_in)
    /\ n_pc' = "once"
    /\ UNCHANGED <<n_in, n_out2, matchVars, statsVars, pairsVars, restVars>>

NormalizeAgain ==
    /\ n_pc = "once"
    /\ n_out2' = norm_txt(StrVal(n_out))
    /\ n_pc' = "twice"
    /\ UNCHANGED <<n_in, n_out, matchVars, statsVars, pairsVars, restVars>>

NormNext == Normalize \/ NormalizeAgain

\* C7: normalising a normalised string changes nothing, and a value that is
\* not a string normalises to the empty string
NormIdempotent ==
    /\ n_pc = "twice" => n_out2 = n_out
    /\ (n_pc # "start" /\ ~n_in.isstr) => n_out = <<>>

\* a string that the normaliser really changes has been normalised twice
NormIdempotentWitness ==
    /\ n_pc = "twice"
    /\ n_in.isstr
    /\ n_out # <<>>
    /\ n_out # n_in.val
    /\ Len(n_out) < Len(n_in.val) - 1

(***************************************************************************)
(* Customer statistics builder                                             *)
(*                                                                         *)
(* A score is the quotient (n0 + n1*eps) / (d0 + d1*eps) of two amounts    *)
(* in which eps stands for the guard 1e-9 of the denominators, smaller     *)
(* than any difference of whole days or quantities; or it is NaN.          *)
(***************************************************************************)
Quot(n0, n1, d0, d1) == [nan |-> FALSE, n0 |-> n0, n1 |-> n1, d0 |-> d0, d1 |-> d1]

NaN == [nan |-> TRUE, n0 |-> 0, n1 |-> 0, d0 |-> 0, d1 |-> 0]

Half == Quot(1, 0, 2, 0)

\* a number between 0 and 1 (denominators are positive)
InUnit(x) ==
    /\ ~x.nan
    /\ x.n0 > 0 \/ (x.n0 = 0 /\ x.n1 >= 0)
    /\ x.n0 < x.d0 \/ (x.n0 = x.d0 /\ x.n1 <= x.d1)

\* Series.clip(0, 1); NaN stays NaN
clip01(x) ==
    IF x.nan THEN x
    ELSE IF x.n0 < 0 \/ (x.n0 = 0 /\ x.n1 < 0) THEN Quot(0, 0, 1, 0)
    ELSE IF x.n0 > x.d0 \/ (x.n0 = x.d0 /\ x.n1 > x.d1) THEN Quot(1, 0, 1, 0)
    ELSE x

\* a cell of the date column: a date, given as a day number, or a text that
\* is no date
DateCell(d) == [ok |-> TRUE, day |-> d]
BadDate == [ok |-> FALSE, day |-> 0]

\* pd.to_datetime(cell, errors="coerce"): a date, or NaT
NaT == [ok |-> FALSE, day |-> 0]
to_datetime(cell) == IF cell.ok THEN DateCell(cell.day) ELSE NaT

\* pd.api.types.is_datetime64_any_dtype(pd.to_datetime(col, errors="coerce")):
\* the coerced column is of datetime64 type whatever its cells hold
is_datetime(lines) == TRUE

\* df[df["customer_id"].astype(str) == str(customer_id)], if a customer is
\* given
customer_lines(lines, customer) ==
    IF customer = NoneVal THEN lines
    ELSE SelectSeq(lines, LAMBDA l : l.customer_id = customer)

products_of(lines) == {lines[i].product_id : i \in 1..Len(lines)}

RECURSIVE SumQty(_, _)
SumQty(lines, pid) ==
    IF lines = <<>> THEN 0
    ELSE (IF Head(lines).product_id = pid THEN Head(lines).qty ELSE 0)
         + SumQty(Tail(lines), pid)

SetMax(S) == CHOOSE x \in S : \A y \in S : y <= x
SetMin(S) == CHOOSE x \in S : \A y \in S : x <= y

\* freq = df.groupby("product_id")["qty"].sum();
\* freq_norm = (freq - freq.min()) / (freq.max() - freq.min() + 1e-9)
freq_norm_of(lines) ==
    LET freq == [p \in products_of(lines) |-> SumQty(lines, p)]
        all == {freq[p] : p \in DOMAIN freq}
    IN  [p \in DOMAIN freq |->
            Quot(freq[p] - SetMin(all), 0, SetMax(all) - SetMin(all), 1)]

\* the days of the dates of the lines, NaT skipped
days_of(lines) ==
    {to_datetime(lines[i].order_date).day :
        i \in {j \in 1..Len(lines) : to_datetime(lines[j].order_date).ok}}

product_lines(lines, pid) == SelectSeq(lines, LAMBDA l : l.product_id = pid)

\* last = df.groupby("product_id")["order_date"].max()
\* span = (df["order_date"].max() - df["order_date"].min()).days + 1e-9
\* rec = 1.0 - ((df["order_date"].max() - last).dt.days / span)
\* rec = rec.clip(0, 1)
\* The maximum of dates that are all NaT is NaT, and a difference with NaT
\* has NaN days.
rec_by_date(lines) ==
    LET all == days_of(lines)
    IN  [p \in products_of(lines) |->
            LET mine == days_of(product_lines(lines, p))
            IN  IF all = {} \/ mine = {} THEN NaN
                ELSE clip01(Quot((SetMax(all) - SetMin(all))
                                   - (SetMax(all) - SetMax(mine)), 1,
                                 SetMax(all) - SetMin(all), 1))]

\* rec = {pid: 0.5 for pid in freq.index}
rec_default(lines) == [p \in products_of(lines) |-> Half]

\* _build_customer_stats(df_sales, customer_id)
build_customer_stats(lines, dated, customer) ==
    LET df == customer_lines(lines, customer)
    IN  IF df = <<>> THEN [freq_norm |-> <<>>, rec |-> <<>>]
        ELSE [freq_norm |-> freq_norm_of(df),
              rec |-> IF dated /\ is_datetime(df) THEN rec_by_date(df)
                      ELSE rec_default(df)]

(***************************************************************************)
(* Calls of _build_customer_stats                                          *)
(***************************************************************************)
MaxTx == 2
MaxDay == 2
MaxSaleQty == 2

Customers == {<<"C","1">>, <<"C","2">>}

Products == {<<"P">>, <<"Q">>}

DateCells == {DateCell(d) : d \in 0..MaxDay} \cup {BadDate}

\* the lines of a sales table with a date column, and of one without
DatedLines ==
    [customer_id : Customers, product_id : Products, qty : 1..MaxSaleQty,
     order_date : DateCells]

UndatedLines ==
    [customer_id : Customers, product_id : Products, qty : 1..MaxSaleQty,
     order_date : {BadDate}]

StatsStart ==
    /\ s_pc = "start"
    /\ s_dated \in BOOLEAN
    /\ s_sales \in SeqsUpTo(IF s_dated THEN DatedLines ELSE UndatedLines, MaxTx)
    /\ s_customer \in {NoneVal, <<"C","1">>}
    /\ s_freq_norm = <<>>
    /\ s_rec = <<>>

StatsIdle ==
    /\ s_pc = "idle"
    /\ s_dated = FALSE
    /\ s_sales = <<>>
    /\ s_customer = NoneVal
    /\ s_freq_norm = <<>>
    /\ s_rec = <<>>

BuildStats ==
    /\ s_pc = "start"
    /\ LET out == build_customer_stats(s_sales, s_dated, s_customer)
       IN  /\ s_freq_norm' = out.freq_norm
           /\ s_rec' = out.rec
    /\ s_pc' = "done"
    /\ UNCHANGED <<s_dated, s_sales, s_customer>>
    /\ UNCHANGED <<normVars, matchVars, pairsVars, restVars>>

StatsNext == BuildStats

\* the lines of the customer the statistics are built for
OwnLines == customer_lines(s_sales, s_customer)

\* C8: when the customer's transactions have no date column or no date of
\* theirs can be parsed, every recency score is exactly 0.5; and every
\* recency score is a number between 0 and 1
RecencyDefault ==
    s_pc = "done" =>
        /\ (~s_dated \/ days_of(OwnLines) = {}) =>
              \A p \in DOMAIN s_rec : s_rec[p] = Half
        /\ \A p \in DOMAIN s_rec : InUnit(s_rec[p])

(***************************************************************************)
(* Association miner                                                       *)
(*                                                                         *)
(* A ratio is kept as the pair of its numerator and denominator.           *)
(***************************************************************************)
\* the characters of the identifiers, in code point order
CharOrder == <<" ", "0", "1", "2", "3", "4", "5", "6", "7", "8", "9">>
             \o UpperChars \o LowerChars

Ord(c) == CHOOSE i \in 1..Len(CharOrder) : CharOrder[i] = c

\* a < b on strings
RECURSIVE StrLess(_, _)
StrLess(a, b) ==
    IF b = <<>> THEN FALSE
    ELSE IF a = <<>> THEN TRUE
    ELSE IF Head(a) = Head(b) THEN StrLess(Tail(a), Tail(b))
    ELSE Ord(Head(a)) < Ord(Head(b))

\* t occurs in s
Contains(s, t) ==
    \E i \in 1..(Len(s) - Len(t) + 1) : SubSeq(s, i, i + Len(t) - 1) = t

\* _safe_str on a cell: series.astype(str).str.strip()
safe_str(cell) == Strip(cell)

\* df[col_order] = _safe_str(df[col_order]);
\* df[col_product] = _safe_str(df[col_product])
safe_lines(lines) ==
    [i \in 1..Len(lines) |->
        [order |-> safe_str(lines[i].order),
         product |-> safe_str(lines[i].product), name |-> lines[i].name]]

\* patt = "|".join([p for p in exclude_patterns if p]);
\* df[col_product_name].str.lower().str.contains(patt), the patterns being
\* plain words
excluded(name, patterns) ==
    \E i \in 1..Len(patterns) :
        patterns[i] # <<>> /\ Contains(Lower(name), patterns[i])

\* every line kept, whatever its name
kept_all(lines, named, patterns) == lines

\* the lines left by the exclusion filter, applied if a name column is given
kept_lines(lines, named, patterns) ==
    IF named
    THEN SelectSeq(lines, LAMBDA l : ~excluded(l.name, patterns))
    ELSE lines

\* the order and product columns taken as they are, repeated lines included
base_all(lines) == [i \in 1..Len(lines) |-> <<lines[i].order, lines[i].product>>]

\* base = df[[col_order, col_product]].drop_duplicates()
RECURSIVE base_of(_)
base_of(lines) ==
    IF lines = <<>> THEN <<>>
    ELSE LET front == base_of(SubSeq(lines, 1, Len(lines) - 1))
             l == <<lines[Len(lines)].order, lines[Len(lines)].product>>
         IN  IF \E i \in 1..Len(front) : front[i] = l THEN front
             ELSE Append(front, l)

\* every pair of different products kept, in both directions
pair_kept_both(a, b) == a # b

\* pairs[pairs["a"] < pairs["b"]]
pair_kept(a, b) == StrLess(a, b)

\* pairs = p1.merge(p2, on=col_order), filtered: the pairs of rows of base of
\* one order
merged_pairs(base) ==
    {ij \in (1..Len(base)) \X (1..Len(base)) :
        /\ base[ij[1]][1] = base[ij[2]][1]
        /\ pair_kept(base[ij[1]][2], base[ij[2]][2])}

\* pairs.groupby(["a", "b"]).size()
co_counts(base) ==
    LET P == merged_pairs(base)
        keys == {<<base[ij[1]][2], base[ij[2]][2]>> : ij \in P}
    IN  [k \in keys |->
            Cardinality({ij \in P : <<base[ij[1]][2], base[ij[2]][2]>> = k})]

\* the rows of base counted, an order once for each of its products
orders_tot_rows(base) == Len(base)

\* orders_tot = base[col_order].nunique()
orders_tot(base) == Cardinality({base[i][1] : i \in 1..Len(base)})

\* ord_with_a = base.groupby(col_product).size()
ord_with(base, prod) == Cardinality({i \in 1..Len(base) : base[i][2] = prod})

Ratio(n, d) == [num |-> n, den |-> d]

\* x >= y for ratios of positive denominator
RatioGeq(x, y) == x.num * y.den >= y.num * x.den

\* the rows of result, before they are sorted
rule_rows(base) ==
    LET cc == co_counts(base)
        tot == orders_tot(base)
    IN  {[a |-> k[1], b |-> k[2], co_count |-> cc[k],
          support |-> Ratio(cc[k], tot),
          conf_ab |-> Ratio(cc[k], ord_with(base, k[1])),
          conf_ba |-> Ratio(cc[k], ord_with(base, k[2])),
          lift |-> Ratio(cc[k] * tot,
                         ord_with(base, k[1]) * ord_with(base, k[2]))] :
         k \in {j \in DOMAIN cc :
                   ord_with(base, j[1]) * ord_with(base, j[2]) # 0}}

\* an outcome of result.sort_values("lift", ascending=False): the rows by
\* non-increasing lift, rows of equal lift in any order
IsSortedByLift(seq, rows) ==
    /\ {seq[i] : i \in 1..Len(seq)} = rows
    /\ Len(seq) = Cardinality(rows)
    /\ \A i \in 1..(Len(seq) - 1) : RatioGeq(seq[i].lift, seq[i + 1].lift)

\* the outcomes of result.sort_values("lift", ascending=False), built from
\* the front: a row of the greatest lift, then the others sorted
RECURSIVE sorted_by_lift(_)
sorted_by_lift(rows) ==
    IF rows = {} THEN {<<>>}
    ELSE UNION {{<<r>> \o t : t \in sorted_by_lift(rows \ {r})} :
                   r \in {q \in rows :
                             \A o \in rows : RatioGeq(q.lift, o.lift)}}

\* build_product_pairs(df_sales, col_order, col_product,
\*                     exclude_patterns=..., col_product_name=...), unsorted
build_product_pairs(lines, named, patterns) ==
    rule_rows(base_of(kept_lines(safe_lines(lines), named, patterns)))

(***************************************************************************)
(* Calls of build_product_pairs                                            *)
(***************************************************************************)
MaxLines == 5

OrderIds == <<<<"1">>, <<"2">>, <<"3">>>>

\* the products on sale: their code as the table writes it and their name;
\* "P2" is also written with a blank behind it, "P10" sorts before "P2", and
\* a line of "P1" can carry another name
ProductCells ==
    << [product |-> <<"P","1">>, name |-> <<"B","o","x">>],
       [product |-> <<"P","2">>, name |-> <<"B","o","x">>],
       [product |-> <<"P","2"," ">>, name |-> <<"B","o","x">>],
       [product |-> <<"P","1","0">>, name |-> <<"B","i","g"," ","F","e","e">>],
       [product |-> <<"P","1">>, name |-> <<"F","e","e">>] >>

\* the lines a sales table can hold, in a fixed order
SaleLines ==
    [k \in 1..(Len(OrderIds) * Len(ProductCells)) |->
        LET o == ((k - 1) \div Len(ProductCells)) + 1
            c == ((k - 1) % Len(ProductCells)) + 1
        IN  [order |-> OrderIds[o], product |-> ProductCells[c].product,
             name |-> ProductCells[c].name]]

\* the tables of at most n lines, as the indices of their lines in SaleLines,
\* from the lo-th on and in the order of SaleLines, repeated lines included:
\* a table stands for all the orders of its lines, which the rules do not
\* depend on
RECURSIVE Tables(_, _)
Tables(n, lo) ==
    IF n = 0 THEN {<<>>}
    ELSE {<<>>} \cup
         UNION {{<<k>> \o t : t \in Tables(n - 1, k)} :
                   k \in lo..Len(SaleLines)}

\* the product cells of the lines of the o-th order in a table of indices
CellsOf(t, o) ==
    LET own == SelectSeq(t, LAMBDA k :
                   ((k - 1) \div Len(ProductCells)) + 1 = o)
    IN  [i \in 1..Len(own) |-> ((own[i] - 1) % Len(ProductCells)) + 1]

\* s comes before t or is t: the longer first, then by the first difference
RECURSIVE LexGeq(_, _)
LexGeq(s, t) ==
    IF s = <<>> \/ t = <<>> THEN TRUE
    ELSE IF Head(s) = Head(t) THEN LexGeq(Tail(s), Tail(t))
    ELSE Head(s) < Head(t)

CellsGeq(s, t) == Len(s) > Len(t) \/ (Len(s) = Len(t) /\ LexGeq(s, t))

\* the sales tables: which order id an order has makes no difference to the
\* rules, so the orders of a table are taken in one order, the larger first
SalesTables ==
    {[i \in 1..Len(t) |-> SaleLines[t[i]]] :
        t \in {u \in Tables(MaxLines, 1) :
                  \A o \in 1..(Len(OrderIds) - 1) :
                      CellsGeq(CellsOf(u, o), CellsOf(u, o + 1))}}

\* exclude_patterns=("spese trasporto", "trasporto", "costo", "fee")
DefaultPatterns ==
    << <<"s","p","e","s","e"," ","t","r","a","s","p","o","r","t","o">>,
       <<"t","r","a","s","p","o","r","t","o">>,
       <<"c","o","s","t","o">>, <<"f","e","e">> >>

\* the exclusion patterns: the default of the signature, none, and one
\* pattern written with a capital
PatternSets == {DefaultPatterns, <<>>, << <<"F","e","e">> >>}

PairsStart ==
    /\ p_pc = "start"
    /\ p_sales \in SalesTables
    /\ p_named \in BOOLEAN
    /\ p_patterns \in PatternSets
    /\ p_named \/ p_patterns = DefaultPatterns
    /\ p_rules = <<>>

PairsIdle ==
    /\ p_pc = "idle"
    /\ p_sales = <<>>
    /\ p_named = FALSE
    /\ p_patterns = <<>>
    /\ p_rules = <<>>

BuildPairs ==
    /\ p_pc = "start"
    /\ LET rows == build_product_pairs(p_sales, p_named, p_patterns)
       IN  \E seq \in sorted_by_lift(rows) :
              /\ IsSortedByLift(seq, rows)
              /\ p_rules' = seq
    /\ p_pc' = "done"
    /\ UNCHANGED <<p_sales, p_named, p_patterns>>
    /\ UNCHANGED <<normVars, matchVars, statsVars, restVars>>

PairsNext == BuildPairs

(***************************************************************************)
(* Properties of the association miner                                     *)
(***************************************************************************)
\* the lines that take part: trimmed, and not excluded by name
Taking ==
    LET ls == safe_lines(p_sales)
    IN  {ls[i] : i \in {j \in 1..Len(ls) :
                           ~(p_named /\ excluded(ls[j].name, p_patterns))}}

\* the orders whose product set holds both a and b
OrdersWithBoth(a, b) ==
    {o \in {l.order : l \in Taking} :
        /\ \E l \in Taking : l.order = o /\ l.product = a
        /\ \E l \in Taking : l.order = o /\ l.product = b}

\* C9: every rule has a < b, and no two rules have the same unordered pair
CanonicalPairs ==
    p_pc = "done" =>
        /\ \A i \in 1..Len(p_rules) : StrLess(p_rules[i].a, p_rules[i].b)
        /\ \A i, j \in 1..Len(p_rules) :
              i # j => {p_rules[i].a, p_rules[i].b} # {p_rules[j].a, p_rules[j].b}

\* rules come out of orders that list their products in either order
CanonicalPairsWitness ==
    /\ p_pc = "done"
    /\ Len(p_rules) >= 2
    /\ \E i, j \in 1..Len(p_sales) :
          /\ i < j
          /\ p_sales[i].order = p_sales[j].order
          /\ StrLess(p_sales[j].product, p_sales[i].product)

\* C10: the co_count of a rule is the number of distinct orders whose
\* product set holds both of its products, a product repeated in an order
\* counting once; so it is at least 1
CoCountIsOrders ==
    p_pc = "done" =>
        \A i \in 1..Len(p_rules) :
            /\ p_rules[i].co_count =
                  Cardinality(OrdersWithBoth(p_rules[i].a, p_rules[i].b))
            /\ p_rules[i].co_count >= 1

\* an order names a product of a rule twice, once with a blank behind it
CoCountIsOrdersWitness ==
    /\ p_pc = "done"
    /\ \E r \in 1..Len(p_rules) : \E i, j \in 1..Len(p_sales) :
          /\ i # j
          /\ p_sales[i].order = p_sales[j].order
          /\ p_sales[i].product # p_sales[j].product
          /\ Strip(p_sales[i].product) = p_rules[r].b
          /\ Strip(p_sales[j].product) = p_rules[r].b
          /\ p_rules[r].co_count = 1

\* x = y for ratios of positive denominator
RatioEq(x, y) == x.num * y.den = y.num * x.den

\* the orders that take part, and those whose product set holds a
TotalOrders == {l.order : l \in Taking}

OrdersWith(a) == {l.order : l \in {k \in Taking : k.product = a}}

\* C11: every rule has support = co_count/total_orders,
\* conf_ab = co_count/orders_with(a), conf_ba = co_count/orders_with(b) and
\* lift = support/((orders_with(a)/total_orders)*(orders_with(b)/total_orders)),
\* total_orders being the number of distinct orders that take part
RuleMetrics ==
    p_pc = "done" =>
        \A i \in 1..Len(p_rules) :
            LET r == p_rules[i]
                tot == Cardinality(TotalOrders)
                wa == Cardinality(OrdersWith(r.a))
                wb == Cardinality(OrdersWith(r.b))
            IN  /\ tot > 0 /\ wa > 0 /\ wb > 0
                /\ RatioEq(r.support, Ratio(r.co_count, tot))
                /\ RatioEq(r.conf_ab, Ratio(r.co_count, wa))
                /\ RatioEq(r.conf_ba, Ratio(r.co_count, wb))
                /\ RatioEq(r.lift,
                           Ratio(r.support.num * tot * tot,
                                 r.support.den * wa * wb))

\* the orders {P1,P2}, {P1,P2}, {P1} give the single rule (P1,P2) with
\* co_count 2, support 2/3, conf_ab 2/3, conf_ba 1 and lift 1
RuleMetricsWitness ==
    /\ p_pc = "done"
    /\ {<<l.order, l.product>> : l \in Taking} =
          {<< <<"1">>, <<"P","1">> >>, << <<"1">>, <<"P","2">> >>,
           << <<"2">>, <<"P","1">> >>, << <<"2">>, <<"P","2">> >>,
           << <<"3">>, <<"P","1">> >>}
    /\ Len(p_rules) = 1
    /\ p_rules[1].a = <<"P","1">> /\ p_rules[1].b = <<"P","2">>
    /\ p_rules[1].co_count = 2
    /\ RatioEq(p_rules[1].support, Ratio(2, 3))
    /\ RatioEq(p_rules[1].conf_ab, Ratio(2, 3))
    /\ RatioEq(p_rules[1].conf_ba, Ratio(1, 1))
    /\ RatioEq(p_rules[1].lift, Ratio(1, 1))

\* whether a name holds one of the patterns, letters compared without their
\* case, for the names and the patterns of the tables
NameHits ==
    [ps \in PatternSets |->
        [n \in {ProductCells[c].name : c \in 1..Len(ProductCells)} |->
            \E i \in 1..Len(ps) :
                ps[i] # <<>> /\ Contains(Lower(n), Lower(ps[i]))]]

NameHit(name) == NameHits[p_patterns][name]

\* the products of the table all of whose lines have a name that holds a
\* pattern
HitProducts ==
    {safe_str(p_sales[i].product) : i \in 1..Len(p_sales)} \
        {safe_str(p_sales[i].product) :
            i \in {j \in 1..Len(p_sales) : ~NameHit(p_sales[j].name)}}

\* the orders that have a line whose name holds no pattern
OrdersOfOthers ==
    {safe_str(p_sales[i].order) :
        i \in {j \in 1..Len(p_sales) : ~NameHit(p_sales[j].name)}}

\* the orders that have a line of product a whose name holds no pattern
OrdersOfOthersWith(a) ==
    {safe_str(p_sales[i].order) :
        i \in {j \in 1..Len(p_sales) :
                  /\ ~NameHit(p_sales[j].name)
                  /\ safe_str(p_sales[j].product) = a}}

\* a product whose name holds a pattern on all its lines is in no rule, and
\* the counts of the rules are those of the lines whose name holds none
Excluded ==
    \A i \in 1..Len(p_rules) :
        /\ p_rules[i].a \notin HitProducts
        /\ p_rules[i].b \notin HitProducts
        /\ p_rules[i].support.den = Cardinality(OrdersOfOthers)
        /\ p_rules[i].conf_ab.den =
              Cardinality(OrdersOfOthersWith(p_rules[i].a))
        /\ p_rules[i].conf_ba.den =
              Cardinality(OrdersOfOthersWith(p_rules[i].b))
        /\ p_rules[i].co_count =
              Cardinality(OrdersOfOthersWith(p_rules[i].a)
                          \cap OrdersOfOthersWith(p_rules[i].b))

\* C12 as stated: with a name column and patterns given, a product whose name
\* holds a pattern, compared case-insensitively, is in no rule and in no
\* order total
ExclusionAsClaimed == (p_pc = "done" /\ p_named) => Excluded

\* C12: with a name column given and the patterns written in lower case, the
\* lines whose name holds a pattern, the name compared without its case, are
\* counted in no order's product set and in no order total, and a product
\* that has only such lines is in no rule
ExclusionFilter ==
    (/\ p_pc = "done"
     /\ p_named
     /\ \A i \in 1..Len(p_patterns) : Lower(p_patterns[i]) = p_patterns[i])
        => Excluded

\* the fee product is sold in an order with two other products, and the
\* rules are those of the other two
ExclusionFilterWitness ==
    /\ p_pc = "done"
    /\ p_named
    /\ p_patterns # <<>>
    /\ \A i \in 1..Len(p_patterns) : Lower(p_patterns[i]) = p_patterns[i]
    /\ \E i, j, k \in 1..Len(p_sales) :
          /\ p_sales[i].order = p_sales[j].order
          /\ p_sales[j].order = p_sales[k].order
          /\ NameHit(p_sales[i].name)
          /\ ~NameHit(p_sales[j].name)
          /\ ~NameHit(p_sales[k].name)
          /\ safe_str(p_sales[j].product) # safe_str(p_sales[k].product)
    /\ Len(p_rules) >= 1

(***************************************************************************)
(* Reorder scores (recommendation_script.py)                               *)
(*                                                                         *)
(* A score 1 / (1 + exp(x)) is kept as its exponent x, a ratio: the score  *)
(* falls as x grows, and it is 0.5 at x = 0.  Dates are whole days.        *)
(***************************************************************************)
\* order_data = ordini.merge(righe, on='order_id'): the pairs of an order and
\* a line of the same order id
order_data(ord, rig) ==
    {ij \in (1..Len(ord)) \X (1..Len(rig)) :
        ord[ij[1]].order_id = rig[ij[2]].order_id}

\* the keys of order_data.groupby(['customer_id', 'product_id'])
group_keys(ord, rig) ==
    {<<ord[ij[1]].customer_id, rig[ij[2]].product_id>> :
        ij \in order_data(ord, rig)}

\* the rows of a group
group_of(ord, rig, key) ==
    {ij \in order_data(ord, rig) :
        /\ ord[ij[1]].customer_id = key[1]
        /\ rig[ij[2]].product_id = key[2]}

\* dates = group['date'].sort_values(): the dates of the rows, ascending
RECURSIVE sorted_dates(_, _)
sorted_dates(ord, rows) ==
    IF rows = {} THEN <<>>
    ELSE LET first == CHOOSE r \in rows :
                          \A q \in rows : ord[r[1]].date <= ord[q[1]].date
         IN  <<ord[first[1]].date>> \o sorted_dates(ord, rows \ {first})

\* intervals = dates.diff().dropna().dt.days
intervals_of(dates) == [i \in 1..(Len(dates) - 1) |-> dates[i + 1] - dates[i]]

\* a sequence of numbers, ascending
RECURSIVE sorted_nat(_)
sorted_nat(seq) ==
    IF seq = <<>> THEN <<>>
    ELSE LET i == CHOOSE k \in 1..Len(seq) : \A j \in 1..Len(seq) : seq[k] <= seq[j]
         IN  <<seq[i]>> \o
             sorted_nat(SubSeq(seq, 1, i - 1) \o SubSeq(seq, i + 1, Len(seq)))

\* intervals.median(), doubled: the middle interval, or the mean of the two
\* middle ones
median2(seq) ==
    LET srt == sorted_nat(seq)
        n == Len(srt)
    IN  IF n % 2 = 1 THEN 2 * srt[(n + 1) \div 2]
        ELSE srt[n \div 2] + srt[(n \div 2) + 1]

\* the cadence of a single purchase, in days
ReferenceCadence == 180

\* the days since the first purchase
days_since_first(ref, dates) == ref - dates[1]

\* days_since_last = (reference_date - dates.max()).days
days_since_last(ref, dates) == ref - dates[Len(dates)]

\* the exponent of reorder_score:
\*   (days_since_last - median_interval) / (median_interval or 1), or
\*   (days_since_last - 180) / 180 after a single purchase
reorder_exponent(ref, dates) ==
    IF Len(dates) > 1
    THEN LET m2 == median2(intervals_of(dates))
         IN  Ratio(2 * days_since_last(ref, dates) - m2,
                   IF m2 # 0 THEN m2 ELSE 2)
    ELSE Ratio(days_since_last(ref, dates) - ReferenceCadence,
               ReferenceCadence)

\* reorder_records: one record for each group
reorder_records(ord, rig, ref) ==
    {[customer_id |-> k[1], product_id |-> k[2],
      reorder_score |->
          reorder_exponent(ref, sorted_dates(ord, group_of(ord, rig, k)))] :
        k \in group_keys(ord, rig)}

\* x <= y for ratios of positive denominator
RatioLeq(x, y) == x.num * y.den <= y.num * x.den

\* max_reorder = reorder_df['reorder_score'].max(): the score of the least
\* exponent
max_reorder(recs) ==
    LET top == CHOOSE r \in recs :
                   \A q \in recs : RatioLeq(r.reorder_score, q.reorder_score)
    IN  top.reorder_score

\* reorder_df['normalized_reorder'] = reorder_df['reorder_score'] /
\* (max_reorder if max_reorder else 1): the quotient of two scores, kept as
\* their two exponents; a score of these exponents is not 0
with_normalized(recs) ==
    {[customer_id |-> r.customer_id, product_id |-> r.product_id,
      reorder_score |-> r.reorder_score,
      normalized_reorder |-> [of |-> r.reorder_score, by |-> max_reorder(recs)]] :
        r \in recs}

(***************************************************************************)
(* Calls of compute_reorder_scores                                         *)
(***************************************************************************)
MaxOrd == 3
MaxRighe == 3

OrderDays == {0, 10, 20}

RefDates == {25, 35}

\* the tables of orders: the n-th order has the order id n, and the orders
\* are numbered by date
OrderTables ==
    {t \in SeqsUpTo([customer_id : Customers, date : OrderDays], MaxOrd) :
        \A i \in 1..(Len(t) - 1) : t[i].date <= t[i + 1].date}

Ordini ==
    {[i \in 1..Len(t) |->
        [order_id |-> i, customer_id |-> t[i].customer_id, date |-> t[i].date]] :
        t \in OrderTables}

\* the order lines: a line names an order, which the orders may not hold
AllRighe ==
    {<<o, p>> : o \in 1..MaxOrd, p \in Products}

\* the sets of at most n of the lines S
RECURSIVE SubsetsUpTo(_, _)
SubsetsUpTo(S, n) ==
    IF n = 0 THEN {{}}
    ELSE LET T == SubsetsUpTo(S, n - 1)
         IN  T \cup {t \cup {x} : t \in T, x \in S}

\* a set of lines as a table, in some order
RECURSIVE AsTable(_)
AsTable(S) ==
    IF S = {} THEN <<>>
    ELSE LET l == CHOOSE x \in S : TRUE
         IN  <<[order_id |-> l[1], product_id |-> l[2]]>> \o AsTable(S \ {l})

Righe == {AsTable(S) : S \in SubsetsUpTo(AllRighe, MaxRighe)}

ReorderStart ==
    /\ r_pc = "start"
    /\ ordini \in Ordini
    /\ righe \in Righe
    /\ reference_date \in RefDates
    /\ reorder_df = {}

ReorderIdle ==
    /\ r_pc = "idle"
    /\ ordini = <<>>
    /\ righe = <<>>
    /\ reference_date = 0
    /\ reorder_df = {}

\* compute_reorder_scores(ordini, righe, reference_date): without a record
\* the table has no column reorder_score, and reading it raises KeyError
ComputeReorderScores ==
    /\ r_pc = "start"
    /\ LET recs == reorder_records(ordini, righe, reference_date)
       IN  IF recs = {}
           THEN /\ r_pc' = "raised"
                /\ reorder_df' = {}
           ELSE /\ r_pc' = "done"
                /\ reorder_df' = with_normalized(recs)
    /\ UNCHANGED <<ordini, righe, reference_date>>
    /\ UNCHANGED <<coreVars, recsVars, salesVars, pdfVars, tableVars,
                   sessionVars, submitVars, suggestVars>>

ReorderNext == ComputeReorderScores

(***************************************************************************)
(* Properties of the reorder scores                                        *)
(***************************************************************************)
\* the purchase dates of a record of reorder_df, ascending
DatesOf(r) ==
    sorted_dates(ordini,
                 group_of(ordini, righe, <<r.customer_id, r.product_id>>))

\* the score is above 0.5: its exponent is negative
AboveHalf(score) == score.num < 0

\* C14: a customer who bought a product on days 0, 10 and 20, the reference
\* date being day 25, gets a reorder_score above 0.5 for it
DueSoon ==
    r_pc = "done" =>
        \A r \in reorder_df :
            (DatesOf(r) = <<0, 10, 20>> /\ reference_date = 25)
                => AboveHalf(r.reorder_score)

DueSoonWitness ==
    /\ r_pc = "done"
    /\ reference_date = 25
    /\ \E r \in reorder_df :
          /\ DatesOf(r) = <<0, 10, 20>>
          /\ r.reorder_score = Ratio(2 * 5 - 20, 20)

\* the cadence of a record, doubled: the median gap, or 180 days
Cadence2(r) ==
    IF Len(DatesOf(r)) > 1 THEN median2(intervals_of(DatesOf(r)))
    ELSE 2 * ReferenceCadence

DaysSince(r) == reference_date - DatesOf(r)[Len(DatesOf(r))]

\* C15: a higher score means more overdue: of two records of the same
\* cadence the one with more days since the last purchase has no lower
\* score, and a score is above 0.5 exactly when the days since the last
\* purchase exceed the cadence
MoreOverdueHigher ==
    r_pc = "done" =>
        /\ \A r, q \in reorder_df :
              (Cadence2(r) = Cadence2(q) /\ DaysSince(r) <= DaysSince(q))
                  => RatioLeq(q.reorder_score, r.reorder_score)
        /\ \A r \in reorder_df :
              AboveHalf(r.reorder_score) <=> 2 * DaysSince(r) > Cadence2(r)

\* C19: empty history is not an error: compute_reorder_scores completes
\* without raising whatever the orders are, and without a purchase it
\* returns an empty table
EmptyHistory == r_pc # "raised"

(***************************************************************************)
(* Cross-sell associations and recommendations (recommendation_script.py)  *)
(*                                                                         *)
(* Scores are exact ratios in lowest terms.                                *)
(***************************************************************************)
RECURSIVE gcd(_, _)
gcd(a, b) == IF b = 0 THEN a ELSE gcd(b, a % b)

\* the ratio n/d in lowest terms, n >= 0 and d > 0
Frac(n, d) == LET g == gcd(n, d) IN Ratio(n \div g, d \div g)

FracAdd(x, y) == Frac(x.num * y.den + y.num * x.den, x.den * y.den)
FracMul(x, y) == Frac(x.num * y.num, x.den * y.den)
FracDiv(x, y) == Frac(x.num * y.den, x.den * y.num)

\* for order_id, items in order_data.groupby('order_id'): the order ids
orders_of(ord, rig) == {ord[ij[1]].order_id : ij \in order_data(ord, rig)}

\* prods = set(items['product_id'].tolist())
prods_of(ord, rig, o) ==
    {rig[ij[2]].product_id :
        ij \in {kl \in order_data(ord, rig) : ord[kl[1]].order_id = o}}

\* total_orders
total_orders(ord, rig) == Cardinality(orders_of(ord, rig))

\* product_counts[prod]
product_counts(ord, rig, prod) ==
    Cardinality({o \in orders_of(ord, rig) : prod \in prods_of(ord, rig, o)})

\* pair_counts[(min(a, b), max(a, b))], for the pairs that it holds
pair_counts(ord, rig) ==
    LET keys == {k \in UNION {prods_of(ord, rig, o) \X prods_of(ord, rig, o) :
                                 o \in orders_of(ord, rig)} :
                    StrLess(k[1], k[2])}
    IN  [k \in keys |->
            Cardinality({o \in orders_of(ord, rig) :
                            {k[1], k[2]} \subseteq prods_of(ord, rig, o)})]

\* the lift alone
score_lift(support, lift) == lift

\* score = support * lift
score_of(support, lift) == FracMul(support, lift)

\* support, lift and score of a pair
pair_score(ord, rig, a, b, count) ==
    LET tot == total_orders(ord, rig)
        support == Frac(count, tot)
        lift == FracDiv(support,
                        FracMul(Frac(product_counts(ord, rig, a), tot),
                                Frac(product_counts(ord, rig, b), tot)))
    IN  score_of(support, lift)

\* compute_cross_sell(ordini, righe): cross[a] holds (b, score) and cross[b]
\* holds (a, score) for every pair (a, b) counted
compute_cross_sell(ord, rig) ==
    LET pc == pair_counts(ord, rig)
        prods == UNION {{k[1], k[2]} : k \in DOMAIN pc}
    IN  [x \in prods |->
            {<<k[2], pair_score(ord, rig, k[1], k[2], pc[k])>> :
                k \in {j \in DOMAIN pc : j[1] = x}}
            \cup
            {<<k[1], pair_score(ord, rig, k[1], k[2], pc[k])>> :
                k \in {j \in DOMAIN pc : j[2] = x}}]

\* cross_sell.get(prod, [])
cross_get(cross, prod) == IF prod \in DOMAIN cross THEN cross[prod] ELSE {}

Riordino == <<"Riordino">>
Associato(prod) == <<"Associato a", prod>>

\* every associated product taken
any_product(cross_prod, bought) == TRUE

\* if cross_prod not in bought
not_bought(cross_prod, bought) == cross_prod \notin bought

\* the rows appended to recommendations for the i-th customer of clienti
rows_of(cli, rdf, cross, i) ==
    LET history == {r \in rdf : r.customer_id = cli[i]}
        bought == {r.product_id : r \in history}
    IN  UNION {
          {[at |-> i, from |-> r.product_id, customer_id |-> cli[i],
            product_id |-> r.product_id,
            score |-> FracMul(Frac(7, 10), r.normalized_reorder),
            reason |-> Riordino]}
          \cup
          {[at |-> i, from |-> r.product_id, customer_id |-> cli[i],
            product_id |-> c[1],
            score |-> FracMul(Frac(3, 10), c[2]),
            reason |-> Associato(r.product_id)] :
              c \in {d \in cross_get(cross, r.product_id) :
                        not_bought(d[1], bought)}} :
          r \in history}

\* recommendations, after the loop over clienti
recommendations(cli, rdf, cross) ==
    UNION {rows_of(cli, rdf, cross, i) : i \in 1..Len(cli)}

\* the sum of the scores of a set of rows
RECURSIVE score_sum(_)
score_sum(rows) ==
    IF rows = {} THEN Frac(0, 1)
    ELSE LET r == CHOOSE x \in rows : TRUE
         IN  FracAdd(r.score, score_sum(rows \ {r}))

\* rec_df.groupby(['customer_id', 'product_id']).agg(score sum, reasons
\* joined as a set)
grouped(rows) ==
    {LET own == {r \in rows : r.customer_id = k[1] /\ r.product_id = k[2]}
     IN  [customer_id |-> k[1], product_id |-> k[2],
          score |-> score_sum(own), reason |-> {r.reason : r \in own}] :
        k \in {<<r.customer_id, r.product_id>> : r \in rows}}

\* max_score_per_cust.replace(0, 1)
max_score(groups, cust) ==
    LET own == {g \in groups : g.customer_id = cust}
        top == CHOOSE g \in own : \A h \in own : RatioGeq(g.score, h.score)
    IN  IF top.score.num = 0 THEN Frac(1, 1) ELSE top.score

\* rec_df['normalized_score'] = rec_df['score'] / max_score_per_cust...
normalized(groups) ==
    {[customer_id |-> g.customer_id, product_id |-> g.product_id,
      score |-> g.score, reason |-> g.reason,
      normalized_score |-> FracDiv(g.score, max_score(groups, g.customer_id))] :
        g \in groups}

\* rec_df.merge(prodotti[['product_id', 'name']], on='product_id'): the rows
\* of the products of the catalog
merged(groups, prod) == {g \in groups : g.product_id \in prod}

\* the row g comes before the row h after
\* sort_values(['customer_id', 'normalized_score'], ascending=[True, False]),
\* rows of one customer and score staying in the order of the group keys
RowBefore(g, h) ==
    \/ StrLess(g.customer_id, h.customer_id)
    \/ /\ g.customer_id = h.customer_id
       /\ \/ ~RatioGeq(h.normalized_score, g.normalized_score)
          \/ /\ RatioEq(g.normalized_score, h.normalized_score)
             /\ StrLess(g.product_id, h.product_id)

RECURSIVE sorted_recs(_)
sorted_recs(groups) ==
    IF groups = {} THEN <<>>
    ELSE LET g == CHOOSE x \in groups :
                      \A y \in groups \ {x} : RowBefore(x, y)
         IN  <<g>> \o sorted_recs(groups \ {g})

\* generate_recommendations(clienti, prodotti, reorder_df, cross_sell), given
\* that it has a row to work on
generate_recommendations(cli, prod, rdf, cross) ==
    sorted_recs(merged(normalized(grouped(recommendations(cli, rdf, cross))),
                       prod))

(***************************************************************************)
(* Runs of compute_cross_sell and generate_recommendations                 *)
(***************************************************************************)
MaxRecOrd == 2

RecProducts == Products \cup {<<"R">>}

\* the orders: the n-th has the order id n, and the first is of C1
RecOrdini ==
    {[i \in 1..Len(t) |-> [order_id |-> i, customer_id |-> t[i], date |-> 0]] :
        t \in {u \in SeqsUpTo(Customers, MaxRecOrd) :
                  u # <<>> => u[1] = <<"C","1">>}}

\* the order lines: any lines of the orders and products
RecRighe ==
    {AsTable(S) : S \in SUBSET ((1..MaxRecOrd) \X RecProducts)}

\* the customers listed: none, one without the first order, or both
Clienti == {<<>>, << <<"C","2">> >>, << <<"C","1">>, <<"C","2">> >>}

\* the catalog: all the products, or all but "P"
Prodotti == {RecProducts, RecProducts \ {<<"P">>}}

\* the normalized_reorder of a product in the reorder table
NrProfiles ==
    {[x \in RecProducts |-> Frac(1, 1)],
     [x \in RecProducts |->
         IF x = <<"P">> THEN Frac(1, 1)
         ELSE IF x = <<"Q">> THEN Frac(1, 2) ELSE Frac(0, 1)],
     [x \in RecProducts |-> Frac(0, 1)]}

\* the reorder table of the orders: a row for each customer and product
reorder_table(ord, rig, nr) ==
    {[customer_id |-> k[1], product_id |-> k[2],
      normalized_reorder |-> nr[k[2]]] : k \in group_keys(ord, rig)}

RecsStart ==
    /\ g_pc = "start"
    /\ g_ordini \in RecOrdini
    /\ g_righe \in RecRighe
    /\ clienti \in Clienti
    /\ prodotti \in Prodotti
    /\ \E nr \in NrProfiles :
          g_reorder_df = reorder_table(g_ordini, g_righe, nr)
    /\ cross_sell = <<>>
    /\ rec_df = <<>>

RecsIdle ==
    /\ g_pc = "idle"
    /\ g_ordini = <<>>
    /\ g_righe = <<>>
    /\ clienti = <<>>
    /\ prodotti = {}
    /\ g_reorder_df = {}
    /\ cross_sell = <<>>
    /\ rec_df = <<>>

\* cross_sell = compute_cross_sell(ordini, righe)
ComputeCrossSell ==
    /\ g_pc = "start"
    /\ cross_sell' = compute_cross_sell(g_ordini, g_righe)
    /\ g_pc' = "crossed"
    /\ UNCHANGED <<g_ordini, g_righe, clienti, prodotti, g_reorder_df, rec_df>>
    /\ UNCHANGED <<coreVars, reorderVars, salesVars, pdfVars, tableVars,
                   sessionVars, submitVars, suggestVars>>

\* rec_df = generate_recommendations(clienti, prodotti, reorder_df,
\* cross_sell): without a row the table has no column customer_id, and
\* grouping by it raises KeyError
GenerateRecommendations ==
    /\ g_pc = "crossed"
    /\ IF recommendations(clienti, g_reorder_df, cross_sell) = {}
       THEN /\ g_pc' = "raised"
            /\ rec_df' = <<>>
       ELSE /\ g_pc' = "done"
            /\ rec_df' = generate_recommendations(clienti, prodotti,
                                                  g_reorder_df, cross_sell)
    /\ UNCHANGED <<g_ordini, g_righe, clienti, prodotti, g_reorder_df,
                   cross_sell>>
    /\ UNCHANGED <<coreVars, reorderVars, salesVars, pdfVars, tableVars,
                   sessionVars, submitVars, suggestVars>>

RecsNext == ComputeCrossSell \/ GenerateRecommendations

(***************************************************************************)
(* Properties of the recommendations                                       *)
(***************************************************************************)
\* the rows of rec_df of a customer
RowsOf(cust) ==
    {rec_df[i] : i \in {j \in 1..Len(rec_df) : rec_df[j].customer_id = cust}}

IsOne(x) == x.num = x.den
IsZero(x) == x.num = 0

\* C13: of the rows of a customer in the output the greatest
\* normalized_score is exactly 1, unless all the raw scores of the customer
\* are 0 and then every normalized_score is 0; every normalized_score is in
\* [0, 1]
TopScoreIsOne ==
    g_pc = "done" =>
        \A cust \in Customers :
            LET own == RowsOf(cust)
            IN  own # {} =>
                  /\ \A r \in own :
                        r.normalized_score.num >= 0
                        /\ r.normalized_score.num <= r.normalized_score.den
                  /\ IF \A r \in own : IsZero(r.score)
                     THEN \A r \in own : IsZero(r.normalized_score)
                     ELSE \E r \in own : IsOne(r.normalized_score)

\* the products a customer has purchased
Bought(cust) ==
    {r.product_id : r \in {q \in g_reorder_df : q.customer_id = cust}}

\* the normalized_reorder of a purchased product
NrOf(cust, prod) ==
    LET r == CHOOSE q \in g_reorder_df :
                 q.customer_id = cust /\ q.product_id = prod
    IN  r.normalized_reorder

\* C16: a product the customer has purchased gets no cross-sell
\* contribution: its raw score is exactly 0.7 * normalized_reorder and its
\* reason is the reorder reason alone; the cross-sell reasons go to products
\* the customer has not purchased
NoCrossSellForBought ==
    g_pc = "done" =>
        \A i \in 1..Len(rec_df) :
            LET r == rec_df[i]
            IN  IF r.product_id \in Bought(r.customer_id)
                THEN /\ RatioEq(r.score,
                                Ratio(7 * NrOf(r.customer_id, r.product_id).num,
                                      10 * NrOf(r.customer_id, r.product_id).den))
                     /\ r.reason = {Riordino}
                ELSE Riordino \notin r.reason

\* a customer has purchased two products sold together, one of them scored
NoCrossSellForBoughtWitness ==
    /\ g_pc = "done"
    /\ \E i \in 1..Len(rec_df) :
          LET r == rec_df[i]
          IN  /\ r.product_id \in Bought(r.customer_id)
              /\ ~IsZero(r.score)
              /\ \E c \in cross_get(cross_sell, r.product_id) :
                    c[1] \in Bought(r.customer_id)
              /\ \E c \in cross_get(cross_sell, r.product_id) :
                    c[1] \notin Bought(r.customer_id)

\* the orders that have a line, and those that hold a product
RecOrders ==
    {g_ordini[i].order_id :
        i \in {k \in 1..Len(g_ordini) :
                  \E j \in 1..Len(g_righe) :
                      g_righe[j].order_id = g_ordini[k].order_id}}

RecOrdersWith(prod) ==
    {o \in RecOrders :
        \E j \in 1..Len(g_righe) :
            g_righe[j].order_id = o /\ g_righe[j].product_id = prod}

\* the products a customer has purchased that are sold with x in an order
Sources(cust, x) ==
    {p \in Bought(cust) : RecOrdersWith(p) \cap RecOrdersWith(x) # {}}

\* support(p, x) * lift(p, x)
SupportLift(a, b) ==
    LET tot == Cardinality(RecOrders)
        support == Frac(Cardinality(RecOrdersWith(a) \cap RecOrdersWith(b)), tot)
        lift == FracDiv(support,
                        FracMul(Frac(Cardinality(RecOrdersWith(a)), tot),
                                Frac(Cardinality(RecOrdersWith(b)), tot)))
    IN  FracMul(support, lift)

RECURSIVE SumSupportLift(_, _)
SumSupportLift(S, x) ==
    IF S = {} THEN Frac(0, 1)
    ELSE LET a == CHOOSE b \in S : TRUE
         IN  FracAdd(SupportLift(a, x), SumSupportLift(S \ {a}, x))

\* C17: the raw score of a product x the customer has not purchased is 0.3
\* times the sum, over the distinct purchased products sold with x, of
\* support * lift, each counted once, and its reason holds one entry for each
\* of them
CrossSellScore ==
    g_pc = "done" =>
        \A i \in 1..Len(rec_df) :
            LET r == rec_df[i]
                src == Sources(r.customer_id, r.product_id)
            IN  r.product_id \notin Bought(r.customer_id) =>
                  /\ RatioEq(r.score,
                             FracMul(Frac(3, 10),
                                     SumSupportLift(src, r.product_id)))
                  /\ r.reason = {Associato(a) : a \in src}
                  /\ Cardinality(r.reason) = Cardinality(src)

\* a product not purchased is sold with two purchased ones, in some of the
\* orders only
CrossSellScoreWitness ==
    /\ g_pc = "done"
    /\ \E i \in 1..Len(rec_df) :
          LET r == rec_df[i]
              src == Sources(r.customer_id, r.product_id)
          IN  /\ r.product_id \notin Bought(r.customer_id)
              /\ Cardinality(src) = 2
              /\ \E a \in src :
                    Cardinality(RecOrdersWith(a) \cap RecOrdersWith(r.product_id))
                        # Cardinality(RecOrders)

(***************************************************************************)
(* Recommendations from the sales history alone (app.py)                   *)
(*                                                                         *)
(* A normalized score is a number of thousandths.                          *)
(***************************************************************************)
NoWindow == <<>>

\* the rows left by the date filter, applied if the date column and both
\* ends of the period are given
in_period(lines, window) ==
    IF window = NoWindow THEN lines
    ELSE SelectSeq(lines,
                   LAMBDA l : l.date >= window[1] /\ l.date <= window[2])

\* df[col_customer] = _safe_str(...); df[col_product] = _safe_str(...)
sales_lines(lines) ==
    [i \in 1..Len(lines) |->
        [customer |-> safe_str(lines[i].customer),
         product |-> safe_str(lines[i].product),
         desc |-> lines[i].desc, qty |-> lines[i].qty]]

\* the sum of the quantities of the lines of the indices S
RECURSIVE qty_sum(_, _)
qty_sum(lines, S) ==
    IF S = {} THEN 0
    ELSE LET i == CHOOSE k \in S : TRUE
         IN  lines[i].qty + qty_sum(lines, S \ {i})

\* g = df.groupby([col_customer, col_product, col_desc])[col_qty].sum()
sales_groups(lines) ==
    {[customer_id |-> k[1], product_id |-> k[2], name |-> k[3],
      predicted_qty |->
          qty_sum(lines, {i \in 1..Len(lines) :
                             /\ lines[i].customer = k[1]
                             /\ lines[i].product = k[2]
                             /\ lines[i].desc = k[3]})] :
        k \in {<<lines[i].customer, lines[i].product, lines[i].desc>> :
                  i \in 1..Len(lines)}}

\* (s / s.max()).fillna(0), then .round(3): 0 / 0 is filled with 0; of the
\* quotients of small quantities none lies halfway between two thousandths
score_in_thousandths(qty, top) ==
    IF top = 0 THEN 0 ELSE (2000 * qty + top) \div (2 * top)

\* g["normalized_score"] = g.groupby("customer_id")["predicted_qty"]
\*     .transform(lambda s: (s / s.max()).fillna(0)).round(3)
sales_scored(groups) ==
    {[customer_id |-> g.customer_id, product_id |-> g.product_id,
      name |-> g.name, predicted_qty |-> g.predicted_qty,
      normalized_score |->
          score_in_thousandths(
              g.predicted_qty,
              SetMax({h.predicted_qty :
                         h \in {x \in groups : x.customer_id = g.customer_id}})),
      reason |-> "Storico vendite"] : g \in groups}

\* if min_qty > 0: ...; if score_floor > 0: ...
sales_filtered(rows, opts) ==
    {g \in rows :
        /\ opts.min_qty > 0 => g.predicted_qty >= opts.min_qty
        /\ opts.score_floor > 0 => g.normalized_score >= opts.score_floor}

\* g comes before h after sort_values(["customer_id", "normalized_score",
\* "predicted_qty"], ascending=[True, False, False]), equal rows staying in
\* the order of the group keys
SalesBefore(g, h) ==
    \/ StrLess(g.customer_id, h.customer_id)
    \/ /\ g.customer_id = h.customer_id
       /\ \/ g.normalized_score > h.normalized_score
          \/ /\ g.normalized_score = h.normalized_score
             /\ \/ g.predicted_qty > h.predicted_qty
                \/ /\ g.predicted_qty = h.predicted_qty
                   /\ \/ StrLess(g.product_id, h.product_id)
                      \/ /\ g.product_id = h.product_id
                         /\ StrLess(g.name, h.name)

RECURSIVE sales_sorted(_)
sales_sorted(rows) ==
    IF rows = {} THEN <<>>
    ELSE LET g == CHOOSE x \in rows : \A y \in rows \ {x} : SalesBefore(x, y)
         IN  <<g>> \o sales_sorted(rows \ {g})

\* .groupby("customer_id").head(topn_per_client), if topn_per_client > 0
sales_head(seq, topn) ==
    IF topn > 0
    THEN {seq[i] : i \in {j \in 1..Len(seq) :
              Cardinality({k \in 1..j :
                  seq[k].customer_id = seq[j].customer_id}) <= topn}}
    ELSE {seq[i] : i \in 1..Len(seq)}

\* build_recommendations_from_sales(df_raw, ..., date_start, date_end,
\*     col_date, topn_per_client, min_qty, score_floor)
build_recommendations_from_sales(lines, window, opts) ==
    LET g == sales_scored(sales_groups(sales_lines(in_period(lines, window))))
    IN  sales_sorted(sales_head(sales_sorted(sales_filtered(g, opts)),
                                opts.topn_per_client))

(***************************************************************************)
(* Calls of build_recommendations_from_sales                               *)
(***************************************************************************)
MaxSales == 3

\* the descriptions a product is sold under
SoldAs ==
    {<< <<"P">>, <<"B","o","x">> >>, << <<"P">>, <<"b","o","x">> >>,
     << <<"Q">>, <<"C","u","p">> >>}

SaleQtys == {0, 1, 2}

SaleDates == {0, 1}

\* the kinds of lines, in a fixed order
SalesKinds ==
    LET S == {[customer |-> c, product |-> pd[1], desc |-> pd[2],
               qty |-> q, date |-> d] :
                 c \in Customers, pd \in SoldAs, q \in SaleQtys, d \in SaleDates}
        RECURSIVE AsSeq(_)
        AsSeq(T) == IF T = {} THEN <<>>
                    ELSE LET x == CHOOSE y \in T : TRUE
                         IN  <<x>> \o AsSeq(T \ {x})
    IN  AsSeq(S)

\* the sales tables of at most n lines, the kinds from the lo-th on: a table
\* stands for all the orders of its lines
RECURSIVE SalesRaw(_, _)
SalesRaw(n, lo) ==
    IF n = 0 THEN {<<>>}
    ELSE {<<>>} \cup
         UNION {{<<SalesKinds[k]>> \o t : t \in SalesRaw(n - 1, k)} :
                   k \in lo..Len(SalesKinds)}

\* the period: none, or the second day
Windows == {NoWindow, <<1, 1>>}

\* the filters: none (the defaults), the first row of each customer, or a
\* least quantity with a least score
SalesOpts ==
    {[topn_per_client |-> 0, min_qty |-> 0, score_floor |-> 0],
     [topn_per_client |-> 1, min_qty |-> 0, score_floor |-> 0],
     [topn_per_client |-> 0, min_qty |-> 2, score_floor |-> 600]}

SalesStart ==
    /\ d_pc = "start"
    /\ df_raw \in SalesRaw(MaxSales, 1)
    /\ d_window \in Windows
    /\ d_opts \in SalesOpts
    /\ d_window = NoWindow \/ d_opts.topn_per_client + d_opts.min_qty = 0
    /\ d_recs = <<>>

SalesIdle ==
    /\ d_pc = "idle"
    /\ df_raw = <<>>
    /\ d_window = NoWindow
    /\ d_opts = [topn_per_client |-> 0, min_qty |-> 0, score_floor |-> 0]
    /\ d_recs = <<>>

BuildRecommendationsFromSales ==
    /\ d_pc = "start"
    /\ d_recs' = build_recommendations_from_sales(df_raw, d_window, d_opts)
    /\ d_pc' = "done"
    /\ UNCHANGED <<df_raw, d_window, d_opts>>
    /\ UNCHANGED <<coreVars, reorderVars, recsVars, pdfVars, tableVars,
                   sessionVars, submitVars, suggestVars>>

SalesNext == BuildRecommendationsFromSales

(***************************************************************************)
(* Properties of the recommendations from the sales history                *)
(***************************************************************************)
\* the quantity sold to a customer of a product in the period, in all
SoldQty(cust, prod) ==
    LET ls == in_period(df_raw, d_window)
    IN  qty_sum(ls, {i \in 1..Len(ls) :
                        /\ Strip(ls[i].customer) = cust
                        /\ Strip(ls[i].product) = prod})

\* the largest such quantity of a customer
LargestQty(cust) ==
    LET ls == in_period(df_raw, d_window)
    IN  SetMax({SoldQty(cust, Strip(ls[i].product)) :
                   i \in {j \in 1..Len(ls) : Strip(ls[j].customer) = cust}})

\* C18: the table has at most one row for a customer and a product, its
\* predicted_qty is the sum of the quantities sold to the customer of the
\* product in the period, and its normalized_score is that sum divided by
\* the largest such sum of the customer, to three decimals, and 0 when that
\* is 0
OneRowPerProduct ==
    d_pc = "done" =>
        /\ \A i, j \in 1..Len(d_recs) :
              (/\ d_recs[i].customer_id = d_recs[j].customer_id
               /\ d_recs[i].product_id = d_recs[j].product_id) => i = j
        /\ \A i \in 1..Len(d_recs) :
              LET r == d_recs[i]
              IN  /\ r.predicted_qty = SoldQty(r.customer_id, r.product_id)
                  /\ r.normalized_score =
                        score_in_thousandths(
                            SoldQty(r.customer_id, r.product_id),
                            LargestQty(r.customer_id))

(***************************************************************************)
(* Order records from the text of a PDF (matcher/matcher.py)               *)
(*                                                                         *)
(* The table extraction is kept as its outcome: no row at all, or rows     *)
(* that leave every code and description blank.  A number of a line is     *)
(* kept as its digits before and after the decimal mark.                   *)
(***************************************************************************)
\* str.upper(), one character
UpperCh(c) ==
    IF \E i \in 1..26 : LowerChars[i] = c
    THEN UpperChars[CHOOSE i \in 1..26 : LowerChars[i] = c]
    ELSE c

Upper(s) == [i \in 1..Len(s) |-> UpperCh(s[i])]

\* ch.isalpha()
IsAlpha(c) == \E i \in 1..26 : c = UpperChars[i] \/ c = LowerChars[i]

\* line.startswith(p)
StartsWith(s, p) == Len(s) >= Len(p) /\ SubSeq(s, 1, Len(p)) = p

\* the value of a digit, and of a run of digits
DigitVal(c) == Ord(c) - 2

RECURSIVE IntVal(_)
IntVal(ds) ==
    IF ds = <<>> THEN 0
    ELSE 10 * IntVal(SubSeq(ds, 1, Len(ds) - 1)) + DigitVal(ds[Len(ds)])

RECURSIVE Pow10(_)
Pow10(n) == IF n = 0 THEN 1 ELSE 10 * Pow10(n - 1)

\* length of the run of digits of s from position i on
RECURSIVE DigitRun(_, _)
DigitRun(s, i) ==
    IF i <= Len(s) /\ s[i] \in Digits THEN 1 + DigitRun(s, i + 1) ELSE 0

NoNumber == [found |-> FALSE, int |-> <<>>, frac |-> <<>>]

\* m = re.search(r"(\d+[\.,]\d+)|(\d+)", line): the first digits of the line,
\* with the digits after a decimal mark if there are any
first_number(line) ==
    IF \A i \in 1..Len(line) : line[i] \notin Digits THEN NoNumber
    ELSE LET i == CHOOSE k \in 1..Len(line) :
                      /\ line[k] \in Digits
                      /\ \A j \in 1..(k - 1) : line[j] \notin Digits
             n == DigitRun(line, i)
             m == IF i + n <= Len(line) /\ line[i + n] \in {".", ","}
                  THEN DigitRun(line, i + n + 1) ELSE 0
         IN  [found |-> TRUE, int |-> SubSeq(line, i, i + n - 1),
              frac |-> SubSeq(line, i + n + 1, i + n + m)]

\* q_val > 0
positive(num) == IntVal(num.int) > 0 \/ IntVal(num.frac) > 0

\* int(round(q)): to the nearest whole number, a half to the even one
rounded(num) ==
    LET whole == IntVal(num.int)
        f2 == 2 * IntVal(num.frac)
        one == Pow10(Len(num.frac))
    IN  IF f2 < one THEN whole
        ELSE IF f2 > one THEN whole + 1
        ELSE IF whole % 2 = 0 THEN whole ELSE whole + 1

\* code_candidates = re.findall(r"\d{5,}", line): the runs of 5 digits or
\* more, as the positions where they start
code_candidates(line) ==
    {i \in 1..Len(line) :
        /\ line[i] \in Digits
        /\ (i = 1 \/ line[i - 1] \notin Digits)
        /\ DigitRun(line, i) >= 5}

\* code = code_candidates[-1] if code_candidates else ""
code_of(line) ==
    IF code_candidates(line) = {} THEN <<>>
    ELSE LET i == SetMax(code_candidates(line))
         IN  SubSeq(line, i, i + DigitRun(line, i) - 1)

\* " ".join(current_desc).strip()
RECURSIVE join_lines(_)
join_lines(ls) ==
    IF ls = <<>> THEN <<>>
    ELSE IF Len(ls) = 1 THEN ls[1]
    ELSE ls[1] \o <<" ">> \o join_lines(Tail(ls))

joined(ls) == Strip(join_lines(ls))

\* ("Item" in line or "ITEM" in line) and ("Qty" in line or "QTY" in line)
is_header(line) ==
    /\ Contains(line, <<"I","t","e","m">>) \/ Contains(line, <<"I","T","E","M">>)
    /\ Contains(line, <<"Q","t","y">>) \/ Contains(line, <<"Q","T","Y">>)

\* the markers that stop the scan
StopTerms ==
    {<<"N","e","t"," ","T","o","t","a","l">>, <<"G","r","a","n","d">>,
     <<"G","r","a","n","d"," ","T","o","t","a","l">>, <<"N","e","t">>,
     <<"D","e","l","i","v","e","r","y"," ","D","a","t","e">>}

\* any(term in line for term in ["Net Total", "Grand", ...])
is_stop(line) == \E t \in StopTerms : Contains(line, t)

\* any(ch.isalpha() for ch in line) and line.upper() == line and
\* not line.startswith("HSN"), and the line longer than n characters
is_upper_text(line, n) ==
    /\ Len(line) > n
    /\ \E i \in 1..Len(line) : IsAlpha(line[i])
    /\ Upper(line) = line
    /\ ~StartsWith(line, <<"H","S","N">>)

item(code, desc, qty) ==
    [order_itemcode |-> code, order_desc |-> desc, order_qty |-> qty]

\* the state of the scan of a page
ScanStart(found) ==
    [in_table |-> FALSE, current_desc |-> <<>>, items |-> found,
     stopped |-> FALSE]

\* one turn of the loop over the lines of a page
scan_line(st, line) ==
    IF st.stopped THEN st
    ELSE IF ~st.in_table
    THEN [st EXCEPT !.in_table = is_header(line)]
    ELSE IF is_stop(line)
    THEN [st EXCEPT
            !.items = IF st.current_desc # <<>>
                      THEN Append(@, item(<<>>, joined(st.current_desc), 1))
                      ELSE @,
            !.current_desc = <<>>,
            !.stopped = TRUE]
    ELSE IF is_upper_text(line, 3)
    THEN [st EXCEPT !.current_desc = Append(@, line)]
    ELSE IF st.current_desc # <<>>
    THEN LET m == first_number(line)
         IN  IF m.found
             THEN [st EXCEPT
                     !.items =
                         Append(@, item(code_of(line), joined(st.current_desc),
                                        IF positive(m) THEN rounded(m) ELSE 1)),
                     !.current_desc = <<>>]
             ELSE IF is_upper_text(line, 0)
             THEN [st EXCEPT !.current_desc = Append(@, line)]
             ELSE st
    ELSE st

RECURSIVE scan_lines(_, _)
scan_lines(st, lines) ==
    IF lines = <<>> THEN st
    ELSE scan_lines(scan_line(st, Head(lines)), Tail(lines))

\* lines = [ln.strip() for ln in text.split("\n")]
stripped(lines) == [i \in 1..Len(lines) |-> Strip(lines[i])]

\* the scan of a page after the header, and the flush at its end: the items
\* found so far with those of the page
improved_page(found, lines) ==
    LET st == scan_lines(ScanStart(found), stripped(lines))
    IN  IF st.current_desc # <<>>
        THEN Append(st.items, item(<<>>, joined(st.current_desc), 1))
        ELSE st.items

\* the quantity of the i-th line in the simple pass: the first number of
\* the lines from two before to two after it, or 1
nearby_qty(lines, i) ==
    LET near == {j \in 1..Len(lines) :
                    /\ j >= i - 2 /\ j <= i + 2
                    /\ first_number(lines[j]).found}
    IN  IF near = {} THEN 1
        ELSE rounded(first_number(lines[SetMin(near)]))

\* the simple pass over a page: every upper-case line is a record
simple_page(lines) ==
    LET ls == stripped(lines)
        take == SelectSeq([i \in 1..Len(ls) |-> i],
                          LAMBDA i : is_upper_text(ls[i], 3))
    IN  [k \in 1..Len(take) |->
            item(<<>>, ls[take[k]], nearby_qty(ls, take[k]))]

\* df["order_desc_norm"] = df["order_desc"].map(_norm_txt), and the four
\* columns returned
with_norm(found) ==
    [i \in 1..Len(found) |->
        [order_itemcode |-> found[i].order_itemcode,
         order_desc |-> found[i].order_desc,
         order_desc_norm |-> norm_txt(StrVal(found[i].order_desc)),
         order_qty |-> found[i].order_qty]]

(***************************************************************************)
(* Calls of load_order_pdf                                                 *)
(***************************************************************************)
MaxPdfLines == 4
MaxPages == 2

\* the lines a page can hold
PdfLines ==
    {<<"I","T","E","M"," ","Q","T","Y">>,
     <<"W","I","D","G","E","T"," ","R","E","D">>,
     <<"5">>,
     <<"N","E","T"," ","T","O","T","A","L">>,
     <<"N","e","t"," ","T","o","t","a","l">>,
     <<"0",",","4"," ","1","2","3","4","5">>}

\* the documents: at most MaxPages pages and MaxPdfLines lines in all
RECURSIVE Documents(_, _)
Documents(pages, lines) ==
    IF pages = 0 THEN {<<>>}
    ELSE {<<>>} \cup
         UNION {{<<pg>> \o d : d \in Documents(pages - 1, lines - Len(pg))} :
                   pg \in SeqsUpTo(PdfLines, lines)}

PdfStart ==
    /\ l_pc = "start"
    /\ pdf_table \in {"none", "blank"}
    /\ pdf_pages \in Documents(MaxPages, MaxPdfLines)
    /\ l_page = 0
    /\ improved_items = <<>>
    /\ items = <<>>
    /\ l_result = <<>>

PdfIdle ==
    /\ l_pc = "idle"
    /\ pdf_table = "none"
    /\ pdf_pages = <<>>
    /\ l_page = 0
    /\ improved_items = <<>>
    /\ items = <<>>
    /\ l_result = <<>>

\* the table extraction is over: the scan after the header is entered only
\* inside "if rows:", when rows were extracted and left every code and
\* description blank; without a row the simple pass comes next
AfterTables ==
    /\ l_pc = "start"
    /\ l_pc' = IF pdf_table = "blank" THEN "improved" ELSE "simple"
    /\ l_page' = 1
    /\ UNCHANGED <<pdf_table, pdf_pages, improved_items, items, l_result>>
    /\ UNCHANGED <<coreVars, reorderVars, recsVars, salesVars, tableVars,
                   sessionVars, submitVars, suggestVars>>

\* for page in pdf.pages, in the scan after the header
ImprovedPage ==
    /\ l_pc = "improved"
    /\ l_page <= Len(pdf_pages)
    /\ improved_items' = improved_page(improved_items, pdf_pages[l_page])
    /\ l_page' = l_page + 1
    /\ UNCHANGED <<l_pc, pdf_table, pdf_pages, items, l_result>>
    /\ UNCHANGED <<coreVars, reorderVars, recsVars, salesVars, tableVars,
                   sessionVars, submitVars, suggestVars>>

\* if improved_items: return them; else go on with the simple pass
ImprovedEnd ==
    /\ l_pc = "improved"
    /\ l_page > Len(pdf_pages)
    /\ IF improved_items # <<>>
       THEN /\ l_pc' = "done"
            /\ l_result' = with_norm(improved_items)
            /\ l_page' = l_page
       ELSE /\ l_pc' = "simple"
            /\ l_result' = l_result
            /\ l_page' = 1
    /\ UNCHANGED <<pdf_table, pdf_pages, improved_items, items>>
    /\ UNCHANGED <<coreVars, reorderVars, recsVars, salesVars, tableVars,
                   sessionVars, submitVars, suggestVars>>

\* for page in pdf.pages, in the simple pass
SimplePage ==
    /\ l_pc = "simple"
    /\ l_page <= Len(pdf_pages)
    /\ items' = items \o simple_page(pdf_pages[l_page])
    /\ l_page' = l_page + 1
    /\ UNCHANGED <<l_pc, pdf_table, pdf_pages, improved_items, l_result>>
    /\ UNCHANGED <<coreVars, reorderVars, recsVars, salesVars, tableVars,
                   sessionVars, submitVars, suggestVars>>

\* the records of the simple pass returned, or an empty table
SimpleEnd ==
    /\ l_pc = "simple"
    /\ l_page > Len(pdf_pages)
    /\ l_pc' = "done"
    /\ l_result' = with_norm(items)
    /\ UNCHANGED <<pdf_table, pdf_pages, l_page, improved_items, items>>
    /\ UNCHANGED <<coreVars, reorderVars, recsVars, salesVars, tableVars,
                   sessionVars, submitVars, suggestVars>>

PdfNext ==
    \/ AfterTables
    \/ ImprovedPage
    \/ ImprovedEnd
    \/ SimplePage
    \/ SimpleEnd

(***************************************************************************)
(* Properties of load_order_pdf                                            *)
(***************************************************************************)
\* C20: a document without a usable table whose text is the four lines
\* "ITEM QTY", "WIDGET RED", "5", "NET TOTAL" yields exactly one record, of
\* description "WIDGET RED" and quantity 5
WidgetScenario ==
    (/\ l_pc = "done"
     /\ pdf_pages = << << <<"I","T","E","M"," ","Q","T","Y">>,
                          <<"W","I","D","G","E","T"," ","R","E","D">>,
                          <<"5">>,
                          <<"N","E","T"," ","T","O","T","A","L">> >> >>)
        => /\ Len(l_result) = 1
           /\ l_result[1].order_desc =
                  <<"W","I","D","G","E","T"," ","R","E","D">>
           /\ l_result[1].order_qty = 5

\* C21: every record returned by load_order_pdf has a quantity of at least 1
QuantityAtLeastOne ==
    l_pc = "done" => \A i \in 1..Len(l_result) : l_result[i].order_qty >= 1

\* a line with a stop marker comes after a header line of the page
MarkerSeen(lines) ==
    \E i, j \in 1..Len(lines) :
        /\ i < j
        /\ is_header(Strip(lines[i]))
        /\ is_stop(Strip(lines[j]))

\* C22: once the header-driven scan has met a stop marker after the header,
\* the pending description has been flushed and no later line of the
\* document creates or extends a record
StopIsFinal ==
    [][(/\ l_pc = "improved"
        /\ \E q \in 1..(l_page - 1) : MarkerSeen(pdf_pages[q]))
            => improved_items' = improved_items]_vars

\* some line of the document holds an item marker and a quantity marker
HasHeader ==
    \E q \in 1..Len(pdf_pages) : \E i \in 1..Len(pdf_pages[q]) :
        is_header(Strip(pdf_pages[q][i]))

\* the records of the header-driven scan over the pages from the q-th on
RECURSIVE ScanFrom(_, _)
ScanFrom(found, q) ==
    IF q > Len(pdf_pages) THEN found
    ELSE ScanFrom(improved_page(found, pdf_pages[q]), q + 1)

\* C23: the simple pass is entered only when no line of the text is a
\* header line; when the table extraction gave nothing usable and a header
\* line exists, the records returned are those of the header-driven scan
HeaderDriven ==
    /\ l_pc = "simple" => ~HasHeader
    /\ (l_pc = "done" /\ HasHeader)
           => l_result = with_norm(ScanFrom(<<>>, 1))

(***************************************************************************)
(* Order records from the tables of a PDF (matcher/matcher.py)             *)
(*                                                                         *)
(* A list of rows is kept as runs: a row and the number of times it comes  *)
(* in a row.  The rows of a run have the same cells, so they get the same  *)
(* fields.                                                                 *)
(***************************************************************************)
\* the first k rows of a list of runs
RECURSIVE head_runs(_, _)
head_runs(runs, k) ==
    IF runs = <<>> \/ k <= 0 THEN <<>>
    ELSE IF Head(runs).times >= k
    THEN <<[Head(runs) EXCEPT !.times = k]>>
    ELSE <<Head(runs)>> \o head_runs(Tail(runs), k - Head(runs).times)

\* the number of rows of a list of runs
RECURSIVE nr_rows(_)
nr_rows(runs) ==
    IF runs = <<>> THEN 0 ELSE Head(runs).times + nr_rows(Tail(runs))

\* x is None or str(x).strip() == ""
blank_cell(x) == x = NoneVal \/ Strip(x) = <<>>

\* not r or all(... for x in r): the rows that are skipped
skipped_row(r) == r = <<>> \/ \A i \in 1..Len(r) : blank_cell(r[i])

\* cells = [str(x).strip() if x is not None else "" for x in r]
cells_of_row(r) ==
    [i \in 1..Len(r) |-> IF r[i] = NoneVal THEN <<>> ELSE Strip(r[i])]

\* the rows appended to rows, from the rows of the tables of the pages
extracted_rows(raw) ==
    LET keep == SelectSeq(raw, LAMBDA run : ~skipped_row(run.cells))
    IN  [i \in 1..Len(keep) |->
            [cells |-> cells_of_row(keep[i].cells), times |-> keep[i].times]]

\* all(not (cell and str(cell).strip()) for cell in first_row)
first_row_blank(runs) ==
    \A i \in 1..Len(runs[1].cells) : Strip(runs[1].cells[i]) = <<>>

\* sum(len(c) for c in r)
RECURSIVE content(_)
content(r) == IF r = <<>> THEN 0 ELSE Len(Head(r)) + content(Tail(r))

HeaderRows == 5

\* header = max(rows[:5], key=...): the first row of greatest content
\* among the first five
header_of(runs) ==
    LET first == head_runs(runs, HeaderRows)
        best == CHOOSE i \in 1..Len(first) :
                    /\ \A j \in 1..Len(first) :
                           content(first[j].cells) <= content(first[i].cells)
                    /\ \A j \in 1..(i - 1) :
                           content(first[j].cells) < content(first[i].cells)
    IN  first[best].cells

\* r if len(r) == n else (r + [""] * (n - len(r))): a shorter row is
\* filled up, a longer row is left as it is
filled(r, n) ==
    IF Len(r) >= n THEN r ELSE r \o [i \in 1..(n - Len(r)) |-> <<>>]

\* pd.DataFrame(rows, columns=[col0 .. col(n-1)]) raises ValueError when a
\* row holds more than n cells
too_wide(runs, n) == \E i \in 1..Len(runs) : Len(runs[i].cells) > n

\* the frame with its three output columns initialised
new_frame(runs, n) ==
    [i \in 1..Len(runs) |->
        [cells |-> filled(runs[i].cells, n), times |-> runs[i].times,
         order_itemcode |-> <<>>, order_desc |-> <<>>, order_qty |-> 1]]

\* re.match(r"^[A-Za-z0-9\-\._]{3,}$", v)
is_alnum(v) ==
    /\ Len(v) >= 3
    /\ \A i \in 1..Len(v) :
           IsAlpha(v[i]) \/ v[i] \in Digits \/ v[i] \in {"-", ".", "_"}

\* re.match(r"^\d+([,\.]\d+)?$", v)
is_numeric(v) ==
    LET n == DigitRun(v, 1)
    IN  /\ n >= 1
        /\ \/ n = Len(v)
           \/ /\ n + 1 < Len(v)
              /\ v[n + 1] \in {",", "."}
              /\ n + 1 + DigitRun(v, n + 2) = Len(v)

LongText == 15

\* len(v) > 15
is_long(v) == Len(v) > LongText

SampleSize == 50
ManyCells == 20

\* the test of a count: "alnum", "numeric" or "longtxt"
passes(test, v) ==
    IF test = "alnum" THEN is_alnum(v)
    ELSE IF test = "numeric" THEN is_numeric(v)
    ELSE is_long(v)

\* sum(1 for v in sample if ...), sample the first 50 cells of column c
count_in(frame, c, test) ==
    LET sample == head_runs(frame, SampleSize)
        hits == SelectSeq(sample, LAMBDA run : passes(test, run.cells[c]))
    IN  nr_rows(hits)

\* the reading of the threshold as "at least"
at_least_many(k) == k >= ManyCells

\* alnum > 20, numeric > 20, longtxt > 20
many(k) == k > ManyCells

\* pd.to_numeric(v.replace(",", "."), errors="coerce").fillna(1).astype(int):
\* the whole part of a number, 1 for a cell that is no number (of the cells
\* of the model, the numbers are those of the decimal pattern)
as_int(v) == IF is_numeric(v) THEN IntVal(SubSeq(v, 1, DigitRun(v, 1))) ELSE 1

\* one turn of the loop over the columns: the three masks
scan_column(frame, c) ==
    LET alnum == count_in(frame, c, "alnum")
        numeric == count_in(frame, c, "numeric")
        longtxt == count_in(frame, c, "longtxt")
    IN  [i \in 1..Len(frame) |->
            [frame[i] EXCEPT
                !.order_itemcode =
                    IF many(alnum) /\ @ = <<>> THEN frame[i].cells[c] ELSE @,
                !.order_qty =
                    IF many(numeric) /\ @ = 1 THEN as_int(frame[i].cells[c])
                    ELSE @,
                !.order_desc =
                    IF many(longtxt) /\ @ = <<>> THEN frame[i].cells[c]
                    ELSE @]]

\* both output columns blank in every row
all_blank(frame) ==
    \A i \in 1..Len(frame) :
        /\ Strip(frame[i].order_itemcode) = <<>>
        /\ Strip(frame[i].order_desc) = <<>>

\* df[["order_itemcode", "order_desc", "order_desc_norm", "order_qty"]]
returned_frame(frame) ==
    [i \in 1..Len(frame) |->
        [times |-> frame[i].times,
         order_itemcode |-> frame[i].order_itemcode,
         order_desc |-> frame[i].order_desc,
         order_desc_norm |-> norm_txt(StrVal(frame[i].order_desc)),
         order_qty |-> frame[i].order_qty]]

(***************************************************************************)
(* Calls of load_order_pdf on a document with tables                       *)
(***************************************************************************)
MaxRuns == 2

\* the rows a table can hold
TableRows ==
    {<<<<"A","B","-","1","2">>, <<"1">>, <<"A"," ","L","O","N","G"," ","D","E","S","C","R","I","P","T","I","O","N">>>>,
     <<<<"X","Y","_","9","9">>, <<"2","5">>>>,
     <<<<"A","B","-","1","2">>, <<"X","Y","_","9","9">>>>,
     <<<<>>, <<"X","Y","_","9","9">>>>,
     <<<<"1">>, <<"2","5">>>>,
     <<<<"2",",","7">>, <<"A","N","O","T","H","E","R"," ","L","O","N","G"," ","T","E","X","T">>>>,
     <<<<"A"," ","L","O","N","G"," ","D","E","S","C","R","I","P","T","I","O","N">>>>,
     <<<<>>, <<>>>>,
     <<NoneVal, <<"0">>>>}

\* how many times in a row a row comes: once, as many times as the
\* threshold of a column, once more, and enough to fill the sample with
\* the threshold
RunLengths == {1, ManyCells, ManyCells + 1, SampleSize - ManyCells}

TableRuns == [cells : TableRows, times : RunLengths]

TableStart ==
    /\ t_pc = "start"
    /\ t_raw \in SeqsUpTo(TableRuns, MaxRuns)
    /\ t_rows = <<>>
    /\ t_n = 0
    /\ t_col = 0
    /\ t_df = <<>>

TableIdle ==
    /\ t_pc = "idle"
    /\ t_raw = <<>>
    /\ t_rows = <<>>
    /\ t_n = 0
    /\ t_col = 0
    /\ t_df = <<>>

\* the rows of the tables are collected; without a row, or with a first
\* row of blank cells, the text of the pages is read instead
ExtractTables ==
    /\ t_pc = "start"
    /\ LET got == extracted_rows(t_raw)
       IN  IF got = <<>> \/ first_row_blank(got)
           THEN t_rows' = <<>> /\ t_pc' = "text"
           ELSE t_rows' = got /\ t_pc' = "frame"
    /\ UNCHANGED <<t_raw, t_n, t_col, t_df>>
    /\ UNCHANGED <<coreVars, reorderVars, recsVars, salesVars, pdfVars,
                   sessionVars, submitVars, suggestVars>>

\* the frame is built with the column count of the header row
BuildFrame ==
    /\ t_pc = "frame"
    /\ t_n' = Len(header_of(t_rows))
    /\ IF too_wide(t_rows, t_n')
       THEN t_pc' = "raised" /\ UNCHANGED <<t_col, t_df>>
       ELSE /\ t_pc' = "columns"
            /\ t_col' = 1
            /\ t_df' = new_frame(t_rows, t_n')
    /\ UNCHANGED <<t_raw, t_rows>>
    /\ UNCHANGED <<coreVars, reorderVars, recsVars, salesVars, pdfVars,
                   sessionVars, submitVars, suggestVars>>

\* for c in df.columns: one of the columns col0 .. col(n-1)
ScanColumn ==
    /\ t_pc = "columns"
    /\ t_col <= t_n
    /\ t_df' = scan_column(t_df, t_col)
    /\ t_col' = t_col + 1
    /\ UNCHANGED <<t_pc, t_raw, t_rows, t_n>>
    /\ UNCHANGED <<coreVars, reorderVars, recsVars, salesVars, pdfVars,
                   sessionVars, submitVars, suggestVars>>

\* the frame is returned unless code and description are blank in every
\* row; then the text of the pages is read
ReturnFrame ==
    /\ t_pc = "columns"
    /\ t_col > t_n
    /\ IF all_blank(t_df)
       THEN t_pc' = "text" /\ t_rows' = <<>> /\ t_df' = t_df
       ELSE t_pc' = "done" /\ t_rows' = t_rows /\ t_df' = returned_frame(t_df)
    /\ UNCHANGED <<t_raw, t_n, t_col>>
    /\ UNCHANGED <<coreVars, reorderVars, recsVars, salesVars, pdfVars,
                   sessionVars, submitVars, suggestVars>>

TableNext ==
    \/ ExtractTables
    \/ BuildFrame
    \/ ScanColumn
    \/ ReturnFrame

(***************************************************************************)
(* Properties of load_order_pdf on tables                                  *)
(***************************************************************************)
\* the k-th row of a list of runs
RECURSIVE RowAt(_, _)
RowAt(runs, k) ==
    IF k <= Head(runs).times THEN Head(runs)
    ELSE RowAt(Tail(runs), k - Head(runs).times)

\* how many of the first 50 cells of column c pass the test
Hits(c, test) ==
    Cardinality({k \in 1..Min(SampleSize, nr_rows(t_df)) :
                    passes(test, RowAt(t_df, k).cells[c])})

\* a step that scans column t_col, with the fields a count of hits decides:
\* a row without code takes the cell as its code, a row of quantity 1 the
\* number of the cell as its quantity, a row without description the cell
\* as its description, when the count is at least least; else it keeps
\* them
ColumnStep(least) ==
    (t_pc = "columns" /\ t_col <= t_n) =>
        \A i \in 1..Len(t_df) :
            LET cell == t_df[i].cells[t_col]
            IN  /\ t_df[i].order_itemcode = <<>> =>
                       t_df'[i].order_itemcode =
                           IF Hits(t_col, "alnum") >= least THEN cell
                           ELSE <<>>
                /\ t_df[i].order_qty = 1 =>
                       t_df'[i].order_qty =
                           IF Hits(t_col, "numeric") >= least
                           THEN IF is_numeric(cell)
                                THEN IntVal(SubSeq(cell, 1, DigitRun(cell, 1)))
                                ELSE 1
                           ELSE 1
                /\ t_df[i].order_desc = <<>> =>
                       t_df'[i].order_desc =
                           IF Hits(t_col, "longtxt") >= least THEN cell
                           ELSE <<>>

\* C24 as claimed: a column takes a role when at least 20 of its first 50
\* cells match, so also with exactly 20 matching cells
ColumnRoleAsClaimed == [][ColumnStep(20)]_vars

\* C24: a column is code-like, numeric-like or long-text when more than 20
\* of its first 50 cells match the code pattern, match the decimal pattern
\* or are longer than 15 characters; with exactly 20 it takes no role
ColumnRole == [][ColumnStep(21)]_vars

\* both columns scanned: the first with exactly 20 code cells gave no
\* code, the second with 21 gave every row its code
ColumnRoleWitness ==
    /\ t_pc = "columns"
    /\ t_n = 2
    /\ t_col = 3
    /\ Hits(1, "alnum") = 20
    /\ Hits(2, "alnum") = 21
    /\ \A i \in 1..Len(t_df) : t_df[i].order_itemcode = t_df[i].cells[2]
    /\ \E i \in 1..Len(t_df) : t_df[i].cells[1] # <<>>

\* an earlier column was numeric-like and gave row i its quantity
QtyTaken(i) ==
    \E c \in 1..(t_col - 1) :
        /\ Hits(c, "numeric") > 20
        /\ is_numeric(t_df[i].cells[c])

\* C25: scanning the columns left to right, a code or description that is
\* not empty is never overwritten, and a quantity taken from the first
\* numeric-like column is never changed by a later numeric-like column
FirstWins ==
    [][(t_pc = "columns" /\ t_col <= t_n) =>
          \A i \in 1..Len(t_df) :
              /\ t_df[i].order_itemcode # <<>> =>
                     t_df'[i].order_itemcode = t_df[i].order_itemcode
              /\ t_df[i].order_desc # <<>> =>
                     t_df'[i].order_desc = t_df[i].order_desc
              /\ QtyTaken(i) => t_df'[i].order_qty = t_df[i].order_qty]_vars

\* the rows of the tables that are not blank
NonBlankRows == nr_rows(SelectSeq(t_raw, LAMBDA run : ~skipped_row(run.cells)))

\* C26: for any mix of row lengths the frame is built, every row brought
\* to the cell count of the header row, shorter rows filled up and longer
\* rows cut, one row of the frame per non-blank row of the tables
RowsBroughtToN ==
    /\ t_pc # "raised"
    /\ t_pc = "columns" =>
           /\ nr_rows(t_df) = NonBlankRows
           /\ \A i \in 1..Len(t_df) : Len(t_df[i].cells) = t_n

(***************************************************************************)
(* A session of the interface (app.py): every interaction runs the script  *)
(* from its top to its end, the import tab first and the cross-sell tab    *)
(* last                                                                    *)
(***************************************************************************)
Absent == [present |-> FALSE, val |-> <<>>]
Present(v) == [present |-> TRUE, val |-> v]

\* exclude_patterns = tuple([w.strip().lower() for w in
\*                           excl_input.split(";") if w.strip()]),
\* the text of the box kept as its parts between the semicolons
exclude_patterns_of(words) ==
    LET kept == SelectSeq(words, LAMBDA w : Strip(w) # <<>>)
    IN  [i \in 1..Len(kept) |-> Lower(Strip(kept[i]))]

\* the outcomes of build_product_pairs with its final sort
sorted_pairs(sales, words) ==
    LET rows == build_product_pairs(sales, TRUE, exclude_patterns_of(words))
    IN  {seq \in sorted_by_lift(rows) : IsSortedByLift(seq, rows)}

\* the button "Genera proposte" of the import tab: the sales of the period
\* are stored and the rules of the cross-sell tab are deleted
generate(state, sales) ==
    [state EXCEPT !.sales_df_period = Present(sales), !.xsell_rules = Absent]

MaxReruns == 4

\* the sales files a user loads: lines of one order, with and without a
\* product whose name holds "Fee", and lines of two orders
SessionSales ==
    {<<SaleLines[1], SaleLines[4]>>, <<SaleLines[1], SaleLines[2]>>,
     <<SaleLines[1]>>, <<SaleLines[2], SaleLines[4]>>,
     <<SaleLines[2], SaleLines[5]>>,
     <<SaleLines[1], SaleLines[2], SaleLines[4]>>,
     <<SaleLines[1], SaleLines[2], SaleLines[6], SaleLines[9]>>}

\* the texts of the exclusion box
ExclInputs ==
    {DefaultPatterns, <<>>, << <<"F","e","e">>, <<" ">> >>,
     << <<"b","o","x">> >>}

SessionStart ==
    /\ u_pc = "run"
    /\ session_state = [sales_df_period |-> Absent, xsell_rules |-> Absent]
    /\ excl_input = DefaultPatterns
    /\ x_rules = Absent
    /\ x_runs = 0

SessionIdle ==
    /\ u_pc = "idle"
    /\ session_state = [sales_df_period |-> Absent, xsell_rules |-> Absent]
    /\ excl_input = DefaultPatterns
    /\ x_rules = Absent
    /\ x_runs = 0

\* the cross-sell tab at the end of a run of the script, on the session
\* state the import tab left: without sales nothing is computed; the rules
\* are built when the session state holds none, and taken from it otherwise
xsell_tab(state) ==
    IF ~state.sales_df_period.present
    THEN /\ session_state' = state
         /\ x_rules' = Absent
    ELSE IF ~state.xsell_rules.present
    THEN \E built \in sorted_pairs(state.sales_df_period.val, excl_input') :
            /\ session_state' = [state EXCEPT !.xsell_rules = Present(built)]
            /\ x_rules' = Present(built)
    ELSE /\ session_state' = state
         /\ x_rules' = state.xsell_rules

\* a run of the script after a press of "Genera proposte"
GenerateProposals ==
    /\ u_pc = "run"
    /\ x_runs < MaxReruns
    /\ \E sales \in SessionSales :
          /\ excl_input' = excl_input
          /\ xsell_tab(generate(session_state, sales))
    /\ x_runs' = x_runs + 1
    /\ UNCHANGED u_pc
    /\ UNCHANGED <<coreVars, reorderVars, recsVars, salesVars, pdfVars,
                   tableVars, submitVars, suggestVars>>

\* a run of the script after an edit of the exclusion box, which is on the
\* page once sales are stored
EditExclusions ==
    /\ u_pc = "run"
    /\ x_runs < MaxReruns
    /\ session_state.sales_df_period.present
    /\ \E words \in ExclInputs \ {excl_input} :
          /\ excl_input' = words
          /\ xsell_tab(session_state)
    /\ x_runs' = x_runs + 1
    /\ UNCHANGED u_pc
    /\ UNCHANGED <<coreVars, reorderVars, recsVars, salesVars, pdfVars,
                   tableVars, submitVars, suggestVars>>

SessionNext ==
    \/ GenerateProposals
    \/ EditExclusions

(***************************************************************************)
(* Properties of the session                                               *)
(***************************************************************************)
RuleSet(seq) == {seq[i] : i \in 1..Len(seq)}

\* C27: the rules the cross-sell tab uses are those of build_product_pairs
\* on the stored sales of the period with the exclusion patterns entered
\* now: rules cached under other patterns or other sales are never served
RulesAreCurrent ==
    x_rules.present =>
        RuleSet(x_rules.val) =
            build_product_pairs(session_state.sales_df_period.val, TRUE,
                                exclude_patterns_of(excl_input))

(***************************************************************************)
(* Sending an order to the shop (app.py)                                   *)
(*                                                                         *)
(* A response is kept as its status and the id its body holds, 0 for a     *)
(* body in which no id can be read; a request that raises has no response. *)
(***************************************************************************)
NotReceived == [kind |-> "none", ok |-> FALSE, id |-> 0]
Raised == [kind |-> "exception", ok |-> FALSE, id |-> 0]
Response(ok, id) == [kind |-> "response", ok |-> ok, id |-> id]

\* not api_key or not base_url
missing_config(key, url) == key = <<>> \/ url = <<>>

\* item["product_id"] and item["quantity"] can be read for every item
readable(its) ==
    \A i \in 1..Len(its) : {"product_id", "quantity"} \subseteq DOMAIN its[i]

\* a request that answers whatever its status is taken as a success
any_answer(resp) == FALSE

\* not cart_resp.ok, not order_resp.ok
failed(resp) == ~resp.ok

\* int(root.find("./cart/id").text) raises
no_id(resp) == resp.id = 0

MaxId == 2

\* what a request can bring: an exception, or a response with its status
\* and body
Outcomes == {Raised} \cup {Response(ok, id) : ok \in BOOLEAN, id \in 0..MaxId}

Keys == {<<>>, <<"k">>}
Urls == {<<>>, <<"h","t","t","p","s",":","/","/","s">>}

ItemLists ==
    {<<>>,
     <<[product_id |-> 1, quantity |-> 2]>>,
     <<[product_id |-> 1, quantity |-> 2], [product_id |-> 2, quantity |-> 1]>>,
     <<[product_id |-> 1]>>}

SubmitStart ==
    /\ o_pc = "start"
    /\ api_key \in Keys
    /\ base_url \in Urls
    /\ o_customer \in 1..2
    /\ o_items \in ItemLists
    /\ sent = <<>>
    /\ cart_resp = NotReceived
    /\ cart_id = 0
    /\ order_resp = NotReceived
    /\ o_msg = "none"

SubmitIdle ==
    /\ o_pc = "idle"
    /\ api_key = <<>>
    /\ base_url = <<>>
    /\ o_customer = 1
    /\ o_items = <<>>
    /\ sent = <<>>
    /\ cart_resp = NotReceived
    /\ cart_id = 0
    /\ order_resp = NotReceived
    /\ o_msg = "none"

\* the check of the configuration and the XML of the cart
EnterSubmit ==
    /\ o_pc = "start"
    /\ IF missing_config(api_key, base_url)
       THEN o_pc' = "done" /\ o_msg' = "Chiave API o URL mancanti."
       ELSE IF ~readable(o_items)
       THEN o_pc' = "raised" /\ o_msg' = o_msg
       ELSE o_pc' = "cart" /\ o_msg' = o_msg
    /\ UNCHANGED <<api_key, base_url, o_customer, o_items, sent, cart_resp,
                   cart_id, order_resp>>
    /\ UNCHANGED <<coreVars, reorderVars, recsVars, salesVars, pdfVars,
                   tableVars, sessionVars, suggestVars>>

\* requests.post(base_url/api/carts), and the cart id read from the answer
PostCart ==
    /\ o_pc = "cart"
    /\ sent' = Append(sent, [to |-> "carts", customer |-> o_customer,
                             items |-> o_items])
    /\ \E resp \in Outcomes :
          /\ cart_resp' = resp
          /\ IF resp = Raised
             THEN /\ o_pc' = "done"
                  /\ o_msg' = "Errore connessione (carrello)"
                  /\ cart_id' = cart_id
             ELSE IF failed(resp)
             THEN /\ o_pc' = "done"
                  /\ o_msg' = "Errore creazione carrello"
                  /\ cart_id' = cart_id
             ELSE IF no_id(resp)
             THEN /\ o_pc' = "done"
                  /\ o_msg' = "Carrello creato ma impossibile leggere l'ID"
                  /\ cart_id' = cart_id
             ELSE /\ o_pc' = "order"
                  /\ o_msg' = o_msg
                  /\ cart_id' = resp.id
    /\ UNCHANGED <<api_key, base_url, o_customer, o_items, order_resp>>
    /\ UNCHANGED <<coreVars, reorderVars, recsVars, salesVars, pdfVars,
                   tableVars, sessionVars, suggestVars>>

\* requests.post(base_url/api/orders), and the message returned
PostOrder ==
    /\ o_pc = "order"
    /\ sent' = Append(sent, [to |-> "orders", customer |-> o_customer,
                             cart |-> cart_id, items |-> o_items])
    /\ \E resp \in Outcomes :
          /\ order_resp' = resp
          /\ o_msg' = IF resp = Raised THEN "Errore connessione (ordine)"
                      ELSE IF failed(resp) THEN "Errore creazione ordine"
                      ELSE "Ordine creato con successo."
    /\ o_pc' = "done"
    /\ UNCHANGED <<api_key, base_url, o_customer, o_items, cart_resp, cart_id>>
    /\ UNCHANGED <<coreVars, reorderVars, recsVars, salesVars, pdfVars,
                   tableVars, sessionVars, suggestVars>>

SubmitNext ==
    \/ EnterSubmit
    \/ PostCart
    \/ PostOrder

(***************************************************************************)
(* Properties of submit_order_to_prestashop                                *)
(***************************************************************************)
SentTo(what) == {i \in 1..Len(sent) : sent[i].to = what}

\* C28: without key or URL no request is sent; each request is sent at
\* most once; the order request is sent only after the cart request
\* succeeded and its cart id was read; the success message is returned
\* only when both requests succeeded
SubmitProtocol ==
    /\ missing_config(api_key, base_url) => sent = <<>>
    /\ Cardinality(SentTo("carts")) <= 1
    /\ Cardinality(SentTo("orders")) <= 1
    /\ \A i \in SentTo("orders") :
           /\ \E j \in SentTo("carts") : j < i
           /\ cart_resp.kind = "response" /\ cart_resp.ok
           /\ cart_resp.id # 0 /\ sent[i].cart = cart_resp.id
    /\ o_msg = "Ordine creato con successo." =>
           /\ cart_resp.kind = "response" /\ cart_resp.ok
           /\ order_resp.kind = "response" /\ order_resp.ok
           /\ Len(sent) = 2

\* both requests were sent and answered with success
SubmitProtocolWitness ==
    /\ o_pc = "done"
    /\ o_msg = "Ordine creato con successo."
    /\ Len(sent) = 2
    /\ sent[1].to = "carts" /\ sent[2].to = "orders"
    /\ o_items # <<>>

(***************************************************************************)
(* Cross-sell suggestions for one customer (app.py)                        *)
(***************************************************************************)
\* bought: the products of the lines of the customer, both columns passed
\* through _safe_str
bought_by(lines, cust) ==
    {safe_str(lines[i].product) :
        i \in {k \in 1..Len(lines) : safe_str(lines[k].customer) = cust}}

\* the rules whose a was bought and that meet the three minimums
strong_rules(rules, bought, p) ==
    SelectSeq(rules, LAMBDA r :
        /\ r.a \in bought
        /\ RatioGeq(r.support, p.min_support)
        /\ RatioGeq(r.conf_ab, p.min_conf)
        /\ RatioGeq(r.lift, p.min_lift))

\* (weight_lift * lift) + (weight_conf * conf_ab)
cross_score(r, p) ==
    Ratio(p.weight_lift.num * r.lift.num * p.weight_conf.den * r.conf_ab.den
            + p.weight_conf.num * r.conf_ab.num * p.weight_lift.den * r.lift.den,
          p.weight_lift.den * r.lift.den * p.weight_conf.den * r.conf_ab.den)

\* the columns product_id, source_product, score and why; why names the
\* source product, the lift and the confidence
suggestion(r, p) ==
    [product_id |-> r.b, source_product |-> r.a, score |-> cross_score(r, p),
     why |-> [a |-> r.a, lift |-> r.lift, conf_ab |-> r.conf_ab]]

\* the outcomes of sort_values("score", ascending=False): rows of equal
\* score in any order
RECURSIVE sorted_by_score(_)
sorted_by_score(rows) ==
    IF rows = {} THEN {<<>>}
    ELSE UNION {{<<r>> \o t : t \in sorted_by_score(rows \ {r})} :
                   r \in {q \in rows :
                             \A o \in rows : RatioGeq(q.score, o.score)}}

\* drop_duplicates(subset=["product_id"], keep="first")
first_per_product(seq) ==
    LET keep == {i \in 1..Len(seq) :
                    \A j \in 1..(i - 1) : seq[j].product_id # seq[i].product_id}
        RECURSIVE pick(_)
        pick(i) == IF i > Len(seq) THEN <<>>
                   ELSE IF i \in keep THEN <<seq[i]>> \o pick(i + 1)
                   ELSE pick(i + 1)
    IN  pick(1)

\* .head(topn)
head_rows(seq, n) == SubSeq(seq, 1, Min(n, Len(seq)))

\* suggest_cross_sell_for_customer: its possible results
suggest_cross_sell_for_customer(lines, rules, cust, p) ==
    LET bought == bought_by(lines, cust)
        r == strong_rules(rules, bought, p)
        rows == {suggestion(r[i], p) : i \in 1..Len(r)}
    IN  IF bought = {} \/ r = <<>> THEN {<<>>}
        ELSE {head_rows(first_per_product(seq), p.topn) :
                 seq \in sorted_by_score(rows)}

(***************************************************************************)
(* Calls of suggest_cross_sell_for_customer, the rules built from the      *)
(* same sales as in the cross-sell tab                                     *)
(***************************************************************************)
MaxSuggestLines == 3

\* the kinds of lines, in a fixed order: customer, order and product
SuggestKinds ==
    LET cs == <<<<"C","1">>, <<"C","2">>>>
        os == <<<<"1">>, <<"2">>>>
        ps == <<<<"P","1">>, <<"P","2">>, <<"P","1","0">>>>
    IN  [k \in 1..12 |->
            [customer |-> cs[((k - 1) \div 6) + 1],
             order |-> os[(((k - 1) \div 3) % 2) + 1],
             product |-> ps[((k - 1) % 3) + 1],
             name |-> <<"B","o","x">>]]

\* the sales tables of at most n lines, the kinds from the lo-th on
RECURSIVE SuggestSales(_, _)
SuggestSales(n, lo) ==
    IF n = 0 THEN {<<>>}
    ELSE {<<>>} \cup
         UNION {{<<SuggestKinds[k]>> \o t : t \in SuggestSales(n - 1, k)} :
                   k \in lo..Len(SuggestKinds)}

\* the thresholds: the defaults of the signature, and no minimum with a
\* single suggestion
SuggestParams ==
    {[topn |-> 8, min_support |-> Ratio(2, 1000), min_conf |-> Ratio(5, 100),
      min_lift |-> Ratio(11, 10), weight_lift |-> Ratio(6, 10),
      weight_conf |-> Ratio(4, 10)],
     [topn |-> 1, min_support |-> Ratio(0, 1), min_conf |-> Ratio(0, 1),
      min_lift |-> Ratio(0, 1), weight_lift |-> Ratio(6, 10),
      weight_conf |-> Ratio(4, 10)]}

SuggestStart ==
    /\ q_pc = "start"
    /\ q_sales \in SuggestSales(MaxSuggestLines, 1)
    /\ q_customer \in {<<"C","1">>, <<"C","2">>, <<"C","3">>}
    /\ q_params \in SuggestParams
    /\ q_rules = <<>>
    /\ q_recs = <<>>

SuggestIdle ==
    /\ q_pc = "idle"
    /\ q_sales = <<>>
    /\ q_customer = <<"C","1">>
    /\ q_params \in {p \in SuggestParams : p.topn = 8}
    /\ q_rules = <<>>
    /\ q_recs = <<>>

\* rules = build_product_pairs(df_sales, ...) of the cross-sell tab
BuildRules ==
    /\ q_pc = "start"
    /\ LET rows == build_product_pairs(q_sales, TRUE, DefaultPatterns)
       IN  \E seq \in sorted_by_lift(rows) :
              /\ IsSortedByLift(seq, rows)
              /\ q_rules' = seq
    /\ q_pc' = "rules"
    /\ UNCHANGED <<q_sales, q_customer, q_params, q_recs>>
    /\ UNCHANGED <<coreVars, reorderVars, recsVars, salesVars, pdfVars,
                   tableVars, sessionVars, submitVars>>

\* recs = suggest_cross_sell_for_customer(df_sales, rules, sel_client, ...)
SuggestCrossSell ==
    /\ q_pc = "rules"
    /\ q_recs' \in suggest_cross_sell_for_customer(q_sales, q_rules,
                                                   q_customer, q_params)
    /\ q_pc' = "done"
    /\ UNCHANGED <<q_sales, q_customer, q_params, q_rules>>
    /\ UNCHANGED <<coreVars, reorderVars, recsVars, salesVars, pdfVars,
                   tableVars, sessionVars, submitVars>>

SuggestNext ==
    \/ BuildRules
    \/ SuggestCrossSell

(***************************************************************************)
(* Properties of suggest_cross_sell_for_customer                           *)
(***************************************************************************)
\* the products of the lines of the customer
AlreadyBought ==
    {Strip(q_sales[i].product) :
        i \in {k \in 1..Len(q_sales) : Strip(q_sales[k].customer) = q_customer}}

\* at most topn rows, of pairwise distinct products, each from a rule of a
\* bought product that meets the three minimums
WellBacked ==
    /\ Len(q_recs) <= q_params.topn
    /\ \A i, j \in 1..Len(q_recs) :
           q_recs[i].product_id = q_recs[j].product_id => i = j
    /\ \A i \in 1..Len(q_recs) : \E k \in 1..Len(q_rules) :
           /\ q_rules[k].b = q_recs[i].product_id
           /\ q_rules[k].a = q_recs[i].source_product
           /\ q_rules[k].a \in AlreadyBought
           /\ RatioGeq(q_rules[k].support, q_params.min_support)
           /\ RatioGeq(q_rules[k].conf_ab, q_params.min_conf)
           /\ RatioGeq(q_rules[k].lift, q_params.min_lift)

\* C29: no suggested product was already bought by the customer; the
\* result holds at most topn rows of pairwise distinct products, each
\* backed by a rule that meets the minimums
NeverBought ==
    q_pc = "done" =>
        /\ \A i \in 1..Len(q_recs) : q_recs[i].product_id \notin AlreadyBought
        /\ WellBacked

(***************************************************************************)
(* Completion of the matcher                                               *)
(***************************************************************************)
\* C30: with the similarity library at hand, match_order_to_catalog never
\* raises, whatever the catalog, an empty one included, and every order
\* row gets its result, which carries the code, the description and the
\* quantity of the row
MatchCompletes ==
    fuzz_ok =>
        /\ m_pc # "raised"
        /\ Matched =>
               /\ m_result.order_itemcode = ocode_of(m_row)
               /\ m_result.order_desc = m_row.order_desc
               /\ m_result.order_qty = m_row.order_qty

(***************************************************************************)
(* Specifications: one per component, the others standing idle             *)
(***************************************************************************)
InitNorm ==
    /\ NormStart
    /\ MatchIdle /\ StatsIdle /\ PairsIdle /\ ReorderIdle /\ RecsIdle
    /\ SalesIdle /\ PdfIdle /\ TableIdle /\ SessionIdle /\ SubmitIdle
    /\ SuggestIdle

SpecNorm == InitNorm /\ [][NormNext]_vars

InitMatch ==
    /\ MatchStart
    /\ NormIdle /\ StatsIdle /\ PairsIdle /\ ReorderIdle /\ RecsIdle
    /\ SalesIdle /\ PdfIdle /\ TableIdle /\ SessionIdle /\ SubmitIdle
    /\ SuggestIdle

SpecMatch == InitMatch /\ [][MatchNext]_vars

InitStats ==
    /\ StatsStart
    /\ NormIdle /\ MatchIdle /\ PairsIdle /\ ReorderIdle /\ RecsIdle
    /\ SalesIdle /\ PdfIdle /\ TableIdle /\ SessionIdle /\ SubmitIdle
    /\ SuggestIdle

SpecStats == InitStats /\ [][StatsNext]_vars

InitPairs ==
    /\ PairsStart
    /\ NormIdle /\ MatchIdle /\ StatsIdle /\ ReorderIdle /\ RecsIdle
    /\ SalesIdle /\ PdfIdle /\ TableIdle /\ SessionIdle /\ SubmitIdle
    /\ SuggestIdle

SpecPairs == InitPairs /\ [][PairsNext]_vars

InitReorder ==
    /\ ReorderStart
    /\ NormIdle /\ MatchIdle /\ StatsIdle /\ PairsIdle /\ RecsIdle
    /\ SalesIdle /\ PdfIdle /\ TableIdle /\ SessionIdle /\ SubmitIdle
    /\ SuggestIdle

SpecReorder == InitReorder /\ [][ReorderNext]_vars

InitRecs ==
    /\ RecsStart
    /\ NormIdle /\ MatchIdle /\ StatsIdle /\ PairsIdle /\ ReorderIdle
    /\ SalesIdle /\ PdfIdle /\ TableIdle /\ SessionIdle /\ SubmitIdle
    /\ SuggestIdle

SpecRecs == InitRecs /\ [][RecsNext]_vars

InitSales ==
    /\ SalesStart
    /\ NormIdle /\ MatchIdle /\ StatsIdle /\ PairsIdle /\ ReorderIdle
    /\ RecsIdle /\ PdfIdle /\ TableIdle /\ SessionIdle /\ SubmitIdle
    /\ SuggestIdle

SpecSales == InitSales /\ [][SalesNext]_vars

InitPdf ==
    /\ PdfStart
    /\ NormIdle /\ MatchIdle /\ StatsIdle /\ PairsIdle /\ ReorderIdle
    /\ RecsIdle /\ SalesIdle /\ TableIdle /\ SessionIdle /\ SubmitIdle
    /\ SuggestIdle

SpecPdf == InitPdf /\ [][PdfNext]_vars

InitTable ==
    /\ TableStart
    /\ NormIdle /\ MatchIdle /\ StatsIdle /\ PairsIdle /\ ReorderIdle
    /\ RecsIdle /\ SalesIdle /\ PdfIdle /\ SessionIdle /\ SubmitIdle
    /\ SuggestIdle

SpecTable == InitTable /\ [][TableNext]_vars

InitSession ==
    /\ SessionStart
    /\ NormIdle /\ MatchIdle /\ StatsIdle /\ PairsIdle /\ ReorderIdle
    /\ RecsIdle /\ SalesIdle /\ PdfIdle /\ TableIdle /\ SubmitIdle
    /\ SuggestIdle

SpecSession == InitSession /\ [][SessionNext]_vars

InitSubmit ==
    /\ SubmitStart
    /\ NormIdle /\ MatchIdle /\ StatsIdle /\ PairsIdle /\ ReorderIdle
    /\ RecsIdle /\ SalesIdle /\ PdfIdle /\ TableIdle /\ SessionIdle
    /\ SuggestIdle

SpecSubmit == InitSubmit /\ [][SubmitNext]_vars

InitSuggest ==
    /\ SuggestStart
    /\ NormIdle /\ MatchIdle /\ StatsIdle /\ PairsIdle /\ ReorderIdle
    /\ RecsIdle /\ SalesIdle /\ PdfIdle /\ TableIdle /\ SessionIdle
    /\ SubmitIdle

SpecSuggest == InitSuggest /\ [][SuggestNext]_vars

====
